---------------------------- MODULE Spec2Model ----------------------------
(***************************************************************************)
(* Product content optimizer of the Shopify app: the generator             *)
(* (services/product-optimizer.server: createOptimizedContent and its      *)
(* sanitizer) and the route action of app/routes/app._index.tsx            *)
(* (optimize, bulk, rollback) over the product store and the               *)
(* ProductOptimization history table.                                      *)
(*                                                                         *)
(* A JavaScript string is a sequence of UTF-16 code units; here it is a    *)
(* sequence of one-unit values.  The two non-ASCII units the code writes,  *)
(* U+2026 and U+2022, are the values "ELLIPSIS" and "BULLET".              *)
(***************************************************************************)
EXTENDS Integers, Sequences, FiniteSets, TLC

VARIABLES apiKey, store, history, last, used, gen

vars == <<apiKey, store, history, last, used, gen>>

----------------------------------------------------------------------------
(* Characters and the string primitives of the JavaScript runtime.         *)

\* F applied to the value of v.  TLC evaluates an operator's argument and a LET
\* definition anew at each use; the bound variable of a set is evaluated once.
bind(v, F(_)) == CHOOSE r \in {F(x) : x \in {v}} : TRUE

Whitespace == {" ", "\n", "\t"}

LowerSeq ==
    <<"a", "b", "c", "d", "e", "f", "g", "h", "i", "j", "k", "l", "m", "n", "o", "p", "q", "r",
      "s", "t", "u", "v", "w", "x", "y", "z">>

UpperSeq ==
    <<"A", "B", "C", "D", "E", "F", "G", "H", "I", "J", "K", "L", "M", "N", "O", "P", "Q", "R",
      "S", "T", "U", "V", "W", "X", "Y", "Z">>

Digits == {"0", "1", "2", "3", "4", "5", "6", "7", "8", "9"}

LowerSet == {LowerSeq[i] : i \in DOMAIN LowerSeq}

UpperSet == {UpperSeq[i] : i \in DOMAIN UpperSeq}

ToLowerMap == [c \in UpperSet |-> LowerSeq[CHOOSE i \in DOMAIN UpperSeq : UpperSeq[i] = c]]

ToUpperMap == [c \in LowerSet |-> UpperSeq[CHOOSE i \in DOMAIN LowerSeq : LowerSeq[i] = c]]

charToLower(c) == IF c \in UpperSet THEN ToLowerMap[c] ELSE c

charToUpper(c) == IF c \in LowerSet THEN ToUpperMap[c] ELSE c

toLowerCase(value) == bind(value, LAMBDA s : [i \in 1..Len(s) |-> charToLower(s[i])])

RECURSIVE firstWhere(_, _, _, _, _)
\* The first index i in lo..hi with (s[i] \in chars) = member, 0 when none
\* (String.prototype.search on a character class).  s is a value, not an
\* expression to evaluate.
firstWhere(s, lo, hi, chars, member) ==
    IF lo > hi THEN 0
    ELSE IF lo = hi THEN (IF (s[lo] \in chars) = member THEN lo ELSE 0)
    ELSE bind(firstWhere(s, lo, (lo + hi) \div 2, chars, member), LAMBDA left :
           IF left # 0 THEN left
           ELSE firstWhere(s, (lo + hi) \div 2 + 1, hi, chars, member))

RECURSIVE lastWhere(_, _, _, _, _)
\* The last such index, 0 when none.
lastWhere(s, lo, hi, chars, member) ==
    IF lo > hi THEN 0
    ELSE IF lo = hi THEN (IF (s[lo] \in chars) = member THEN lo ELSE 0)
    ELSE bind(lastWhere(s, (lo + hi) \div 2 + 1, hi, chars, member), LAMBDA right :
           IF right # 0 THEN right
           ELSE lastWhere(s, lo, (lo + hi) \div 2, chars, member))

\* String.prototype.slice(0, n) for n >= 0.
slice(value, n) == bind(value, LAMBDA s : SubSeq(s, 1, IF n < Len(s) THEN n ELSE Len(s)))

\* String.prototype.slice(n) (drop the first n units).
sliceFrom(value, n) == bind(value, LAMBDA s : SubSeq(s, n + 1, Len(s)))

trimEnd(value) ==
    bind(value, LAMBDA s : SubSeq(s, 1, lastWhere(s, 1, Len(s), Whitespace, FALSE)))

trimStart(value) ==
    bind(value, LAMBDA s :
      bind(firstWhere(s, 1, Len(s), Whitespace, FALSE), LAMBDA first :
        IF first = 0 THEN <<>> ELSE SubSeq(s, first, Len(s))))

trim(value) == trimStart(trimEnd(value))

endsWith(s, c) == Len(s) > 0 /\ s[Len(s)] = c

\* s.includes(pat), case-insensitively (a regular expression of literals with /i).
includesIgnoreCase(s, pat) ==
    \E i \in 1..(Len(s) - Len(pat) + 1) :
        \A k \in 1..Len(pat) : charToLower(s[i + k - 1]) = charToLower(pat[k])

RECURSIVE flattenRange(_, _, _)
flattenRange(ss, lo, hi) ==
    IF lo > hi THEN <<>>
    ELSE IF lo = hi THEN ss[lo]
    ELSE flattenRange(ss, lo, (lo + hi) \div 2) \o flattenRange(ss, (lo + hi) \div 2 + 1, hi)

\* Array.prototype.join("") of an array of strings.
flatten(parts) == bind(parts, LAMBDA ss : flattenRange(ss, 1, Len(ss)))

\* Array.prototype.join(sep).
join(parts, sep) ==
    bind(parts, LAMBDA ss :
      IF Len(ss) = 0 THEN <<>>
      ELSE flatten([i \in 1..(2 * Len(ss) - 1) |->
                      IF i % 2 = 1 THEN ss[(i + 1) \div 2] ELSE sep]))

indices(s) == [i \in 1..Len(s) |-> i]

\* String.prototype.split on a set of one-unit separators: every field, the
\* empty ones included.
splitOn(value, seps) ==
    bind(value, LAMBDA s :
      bind(SelectSeq(indices(s), LAMBDA i : s[i] \in seps), LAMBDA at :
        [k \in 1..(Len(at) + 1) |->
           SubSeq(s, IF k = 1 THEN 1 ELSE at[k - 1] + 1,
                     IF k = Len(at) + 1 THEN Len(s) ELSE at[k] - 1)]))

\* Array.prototype.filter(Boolean) on an array of strings.
filterBoolean(ss) == SelectSeq(ss, LAMBDA x : x # <<>>)

\* replace(/\s+/g, " "): the first unit of each run of whitespace becomes a
\* blank and the rest of the run goes.
collapseWhitespace(value) ==
    bind(value, LAMBDA s :
      bind(SelectSeq(indices(s),
                     LAMBDA i : s[i] \notin Whitespace \/ i = 1 \/ s[i - 1] \notin Whitespace),
           LAMBDA kept :
        [k \in 1..Len(kept) |-> IF s[kept[k]] \in Whitespace THEN " " ELSE s[kept[k]]]))

\* split(/\s+/) followed by a filter that drops the empty fields: the maximal
\* runs of non-whitespace.
splitWords(s) == filterBoolean(splitOn(collapseWhitespace(s), {" "}))

\* The greatest element of the increasing sequence xs that is below i, 0 when none.
lastBelow(xs, i) ==
    bind(SelectSeq(xs, LAMBDA x : x < i), LAMBDA below :
      IF below = <<>> THEN 0 ELSE below[Len(below)])

\* replace(/<[^>]*>/g, " "): a "<" with a ">" somewhere after it opens a match
\* that runs to the first ">" after it; the match becomes one blank.  A unit is
\* inside a match when the last opening "<" before it comes after the last ">"
\* before it.
replaceTags(value) ==
    bind(value, LAMBDA s :
      bind(lastWhere(s, 1, Len(s), {">"}, TRUE), LAMBDA lastClose :
        bind(SelectSeq(indices(s), LAMBDA i : s[i] = "<" /\ i < lastClose), LAMBDA opens :
          bind(SelectSeq(indices(s), LAMBDA i : s[i] = ">"), LAMBDA closes :
            bind(SelectSeq(indices(s),
                           LAMBDA i : ~ (lastBelow(opens, i) > lastBelow(closes, i))),
                 LAMBDA kept :
              [k \in 1..Len(kept) |->
                 IF s[kept[k]] = "<" /\ kept[k] < lastClose THEN " " ELSE s[kept[k]]])))))

----------------------------------------------------------------------------
(* JavaScript values that are not known to be strings: a parsed JSON value *)
(* or one of its properties.  "number" stands for every value that is      *)
(* neither nullish, nor a string, nor an array.                            *)

Str(s) == [t |-> "string", v |-> s]

Arr(a) == [t |-> "array", v |-> a]

Undefined == [t |-> "undefined"]

Null == [t |-> "null"]

Num == [t |-> "number"]

Obj(f) == [t |-> "object", fields |-> f]

\* An optional string of a snapshot (string | null | undefined).
None == <<>>

Some(s) == <<s>>

\* opt ?? dflt
orElse(opt, dflt) == IF opt = None THEN dflt ELSE opt[1]

\* The outcome of a call that may throw.
Ok(v) == [threw |-> FALSE, v |-> v]

Thrown(e) == [threw |-> TRUE, error |-> e]

\* result.name: undefined on everything that is not an object with that key.
prop(result, name) ==
    IF result.t = "object" /\ name \in DOMAIN result.fields
    THEN result.fields[name] ELSE Undefined

----------------------------------------------------------------------------
(* The string literals of product-optimizer.server.                        *)

Ellipsis == "ELLIPSIS"

\* 'Shop our curated collection today.'  (34 characters)
DefaultText ==
    <<"S", "h", "o", "p", " ", "o", "u", "r", " ", "c", "u", "r", "a", "t", "e", "d", " ", "c",
      "o", "l", "l", "e", "c", "t", "i", "o", "n", " ", "t", "o", "d", "a", "y", ".">>

\* ' Discover more in our store.'  (28 characters)
PadFragment ==
    <<" ", "D", "i", "s", "c", "o", "v", "e", "r", " ", "m", "o", "r", "e", " ", "i", "n", " ",
      "o", "u", "r", " ", "s", "t", "o", "r", "e", ".">>

\* ' delivers quality and value for your store.'  (43 characters)
IntroSuffix ==
    <<" ", "d", "e", "l", "i", "v", "e", "r", "s", " ", "q", "u", "a", "l", "i", "t", "y", " ",
      "a", "n", "d", " ", "v", "a", "l", "u", "e", " ", "f", "o", "r", " ", "y", "o", "u", "r",
      " ", "s", "t", "o", "r", "e", ".">>

\* 'Enjoy fast shipping, secure checkout, and responsive customer support when you order today.'  (91 characters)
ClosingSentence ==
    <<"E", "n", "j", "o", "y", " ", "f", "a", "s", "t", " ", "s", "h", "i", "p", "p", "i", "n",
      "g", ",", " ", "s", "e", "c", "u", "r", "e", " ", "c", "h", "e", "c", "k", "o", "u", "t",
      ",", " ", "a", "n", "d", " ", "r", "e", "s", "p", "o", "n", "s", "i", "v", "e", " ", "c",
      "u", "s", "t", "o", "m", "e", "r", " ", "s", "u", "p", "p", "o", "r", "t", " ", "w", "h",
      "e", "n", " ", "y", "o", "u", " ", "o", "r", "d", "e", "r", " ", "t", "o", "d", "a", "y",
      ".">>

\* ' | '  (3 characters)
TitleSeparator ==
    <<" ", "|", " ">>

\* ' • '  (3 characters)
KeywordJoiner ==
    <<" ", "BULLET", " ">>

\* ' | Shop Now'  (11 characters)
ShopNowSuffix ==
    <<" ", "|", " ", "S", "h", "o", "p", " ", "N", "o", "w">>

\* ' is crafted to help customers feel confident in their purchase.'  (63 characters)
ConfidenceSuffix ==
    <<" ", "i", "s", " ", "c", "r", "a", "f", "t", "e", "d", " ", "t", "o", " ", "h", "e", "l",
      "p", " ", "c", "u", "s", "t", "o", "m", "e", "r", "s", " ", "f", "e", "e", "l", " ", "c",
      "o", "n", "f", "i", "d", "e", "n", "t", " ", "i", "n", " ", "t", "h", "e", "i", "r", " ",
      "p", "u", "r", "c", "h", "a", "s", "e", ".">>

\* ' Shop now for quick shipping, secure checkout, and helpful customer service.'  (76 characters)
closing ==
    <<" ", "S", "h", "o", "p", " ", "n", "o", "w", " ", "f", "o", "r", " ", "q", "u", "i", "c",
      "k", " ", "s", "h", "i", "p", "p", "i", "n", "g", ",", " ", "s", "e", "c", "u", "r", "e",
      " ", "c", "h", "e", "c", "k", "o", "u", "t", ",", " ", "a", "n", "d", " ", "h", "e", "l",
      "p", "f", "u", "l", " ", "c", "u", "s", "t", "o", "m", "e", "r", " ", "s", "e", "r", "v",
      "i", "c", "e", ".">>


ParagraphOpen == <<"<", "p", ">">>

ParagraphClose == <<"<", "/", "p", ">">>

ListOpen == <<"<", "u", "l", ">">>

ListClose == <<"<", "/", "u", "l", ">">>

ItemOpen == <<"<", "l", "i", ">">>

ItemClose == <<"<", "/", "l", "i", ">">>

\* The alternatives of /<p|<ul|<ol|<div/i.
BlockMarkers == {<<"<", "p">>, <<"<", "u", "l">>, <<"<", "o", "l">>, <<"<", "d", "i", "v">>}

SeoTitleMin == 35

SeoTitleMax == 60

SeoDescriptionMin == 110

SeoDescriptionMax == 160

MaxTags == 8

MaxKeywords == 6

MaxKeyBenefits == 4

MaxTitleKeywords == 3

MinKeywordLength == 2

----------------------------------------------------------------------------
(* product-optimizer.server: the sanitizer and the fallback generator.     *)

stripHtml(value) == trim(collapseWhitespace(replaceTags(value)))

escapeChar(c) ==
    CASE c = "&"  -> <<"&", "a", "m", "p", ";">>
      [] c = "<"  -> <<"&", "l", "t", ";">>
      [] c = ">"  -> <<"&", "g", "t", ";">>
      [] c = "\"" -> <<"&", "q", "u", "o", "t", ";">>
      [] c = "'"  -> <<"&", "#", "3", "9", ";">>
      [] OTHER    -> <<c>>

escapeHtml(value) ==
    bind(value, LAMBDA s : flatten([i \in 1..Len(s) |-> escapeChar(s[i])]))

wrapInParagraph(value) ==
    bind(trim(value), LAMBDA trimmed :
      IF trimmed = <<>> THEN <<>>
      ELSE ParagraphOpen \o escapeHtml(trimmed) \o ParagraphClose)

\* The sharp s, a letter whose upper case is two letters.
SharpS == "ESZETT"

\* String.prototype.toUpperCase: the upper case of a unit may be longer than
\* the unit.
toUpperCase(value) ==
    bind(value, LAMBDA s :
      flatten([i \in 1..Len(s) |->
                 IF s[i] = SharpS THEN <<"S", "S">> ELSE <<charToUpper(s[i])>>]))

capitalize(value) ==
    bind(value, LAMBDA s :
      IF s = <<>> THEN s ELSE toUpperCase(<<s[1]>>) \o sliceFrom(s, 1))

KeywordChars == LowerSet \cup UpperSet \cup Digits \cup {"-"}

\* word.replace(/[^a-z0-9-]/gi, "").toLowerCase()
keywordOf(word) == toLowerCase(SelectSeq(word, LAMBDA c : c \in KeywordChars))

buildKeywordsFromTitle(title) ==
    bind(splitWords(title), LAMBDA words :
      slice(SelectSeq([i \in 1..Len(words) |-> keywordOf(words[i])],
                      LAMBDA w : Len(w) > MinKeywordLength),
            MaxKeywords))

\* Array.from(new Set(xs)): the first occurrence of each value, in order.
dedupe(values) ==
    bind(values, LAMBDA xs :
      bind(SelectSeq(indices(xs), LAMBDA i : \A j \in 1..(i - 1) : xs[j] # xs[i]),
           LAMBDA firsts :
        [k \in 1..Len(firsts) |-> xs[firsts[k]]]))

trimAll(values) == bind(values, LAMBDA xs : filterBoolean([i \in 1..Len(xs) |-> trim(xs[i])]))

lowerAll(values) == bind(values, LAMBDA xs : [i \in 1..Len(xs) |-> toLowerCase(xs[i])])

capitalizeAll(values) == bind(values, LAMBDA xs : [i \in 1..Len(xs) |-> capitalize(xs[i])])

normalizeTags(tags, snapshot) ==
    bind(CASE tags.t = "array"  -> trimAll(tags.v)
           [] tags.t = "string" -> trimAll(splitOn(tags.v, {",", "\n"}))
           [] OTHER             -> <<>>,
         LAMBDA given :
      bind(IF given = <<>> THEN buildKeywordsFromTitle(snapshot.title) ELSE given,
           LAMBDA normalized :
        slice(capitalizeAll(dedupe(lowerAll(normalized))), MaxTags)))

\* `${text.slice(0, max).trimEnd()}` followed by the ellipsis.
truncateAtMax(text, max) == Append(trimEnd(slice(text, max)), Ellipsis)

\* `${text.slice(0, max - 1).trimEnd()}` followed by the ellipsis.
truncate(text, max) == Append(trimEnd(slice(text, max - 1)), Ellipsis)

RECURSIVE padLoop(_, _, _, _)
\* The while loop of enforceLength, with the number of iterations it ran.
padLoop(value, min, max, n) ==
    bind(value, LAMBDA text :
      IF Len(text) >= min THEN [text |-> text, iterations |-> n]
      ELSE bind(text \o (IF endsWith(text, ".") THEN <<>> ELSE <<".">>) \o PadFragment,
                LAMBDA padded :
             IF Len(padded) > max
             THEN [text |-> truncate(padded, max), iterations |-> n + 1]
             ELSE padLoop(padded, min, max, n + 1)))

\* enforceLength on a value that is a string or nullish; fallback is a string
\* or undefined.
enforceLengthRun(value, min, max, fallback) ==
    bind(IF value.t = "string" THEN trim(value.v) ELSE <<>>, LAMBDA t0 :
      bind(IF t0 = <<>> /\ fallback.t = "string" /\ fallback.v # <<>>
           THEN trim(fallback.v) ELSE t0, LAMBDA t1 :
        bind(IF t1 = <<>> THEN DefaultText ELSE t1, LAMBDA t2 :
          padLoop(IF Len(t2) > max THEN truncate(t2, max) ELSE t2, min, max, 0))))

\* value?.trim() throws a TypeError on a value that is neither nullish nor a string.
enforceLength(value, min, max, fallback) ==
    IF value.t \notin {"string", "undefined", "null"} THEN Thrown("TypeError")
    ELSE Ok(enforceLengthRun(value, min, max, fallback).text)

fallbackSeoTitle(snapshot) ==
    bind(slice(buildKeywordsFromTitle(snapshot.title), MaxTitleKeywords), LAMBDA keywords :
      snapshot.title \o (IF keywords # <<>>
                         THEN TitleSeparator \o join(keywords, KeywordJoiner)
                         ELSE ShopNowSuffix))

fallbackSeoDescription(snapshot) ==
    bind(stripHtml(orElse(snapshot.descriptionHtml, <<>>)), LAMBDA description :
      (IF description # <<>> THEN description ELSE snapshot.title \o ConfidenceSuffix)
        \o closing)

\* content.trim() throws a TypeError on a value that is not a string.
normalizeDescription(content) ==
    IF content.t # "string" THEN Thrown("TypeError")
    ELSE bind(trim(content.v), LAMBDA trimmed :
           IF trimmed = <<>> THEN Ok(<<>>)
           ELSE IF ~ \E m \in BlockMarkers : includesIgnoreCase(trimmed, m)
                THEN Ok(wrapInParagraph(trimmed))
                ELSE Ok(trimmed))

sanitizeOptimizedResult(snapshot, result) ==
    bind(normalizeDescription(prop(result, "descriptionHtml")), LAMBDA descriptionHtml :
      IF descriptionHtml.threw THEN descriptionHtml
      ELSE bind(enforceLength(prop(result, "seoTitle"), SeoTitleMin, SeoTitleMax,
                              Str(fallbackSeoTitle(snapshot))), LAMBDA seoTitle :
        IF seoTitle.threw THEN seoTitle
        ELSE bind(enforceLength(prop(result, "seoDescription"), SeoDescriptionMin,
                                SeoDescriptionMax, Str(fallbackSeoDescription(snapshot))),
                  LAMBDA seoDescription :
          IF seoDescription.threw THEN seoDescription
          ELSE Ok([descriptionHtml |-> descriptionHtml.v,
                   tags            |-> normalizeTags(prop(result, "tags"), snapshot),
                   seoTitle        |-> seoTitle.v,
                   seoDescription  |-> seoDescription.v]))))

\* `<ul>${keyBenefits.map((item) => `<li>${escapeHtml(item)}</li>`).join("")}</ul>`
benefitList(keyBenefits) ==
    ListOpen
      \o flatten([i \in 1..Len(keyBenefits) |->
                    ItemOpen \o escapeHtml(keyBenefits[i]) \o ItemClose])
      \o ListClose

generateFallbackContent(snapshot) ==
    bind(stripHtml(orElse(snapshot.descriptionHtml, <<>>)), LAMBDA baseDescription :
      bind(slice(buildKeywordsFromTitle(snapshot.title), MaxKeyBenefits), LAMBDA keyBenefits :
        [descriptionHtml |->
             flatten(filterBoolean(
               <<wrapInParagraph(IF baseDescription # <<>> THEN baseDescription
                                 ELSE snapshot.title \o IntroSuffix),
                 IF keyBenefits # <<>> THEN benefitList(keyBenefits) ELSE <<>>,
                 wrapInParagraph(ClosingSentence)>>)),
         tags |->
             normalizeTags(Arr(IF snapshot.tags # <<>> THEN snapshot.tags ELSE keyBenefits),
                           snapshot),
         seoTitle |->
             enforceLength(Str(fallbackSeoTitle(snapshot)), SeoTitleMin, SeoTitleMax,
                           Undefined).v,
         seoDescription |->
             enforceLength(Str(fallbackSeoDescription(snapshot)), SeoDescriptionMin,
                           SeoDescriptionMax, Undefined).v]))

----------------------------------------------------------------------------
(* product-optimizer.server: the model-backed tier.                        *)
(*                                                                         *)
(* What the provider does is the environment's choice, env:                *)
(*   kind "transportError"  fetch rejects                                  *)
(*   kind "bodyNotJson"     response.json() throws                         *)
(*   kind "httpError"       response.ok is false                           *)
(*   kind "noContent"       no choices[0].message.content, or ""           *)
(*   kind "content"         text: an optional code fence around a body     *)
(* A body is a JSON value, or [t |-> "invalid"] for text that is not JSON. *)

\* The code-fence forms around a body: lead is what precedes the body,
\* trail what follows it.
FenceLeads == {"none", "fence", "fenceJson", "spaceFence"}

FenceTrails == {"none", "fence", "fenceNewline"}

\* JSON.parse of the cleaned text, null when it throws.  ^```json and ^``` strip
\* a fence at the very start only, ```$ one at the very end only, and trim()
\* the blanks left around the body.
safeJsonParse(content) ==
    IF content.lead # "spaceFence" /\ content.trail # "fenceNewline"
       /\ content.body.t # "invalid"
    THEN content.body ELSE Null

\* !value for a parsed JSON value: null, false, 0 and "" are falsy.
falsy(value) == value.t \in {"null", "undefined"} \/ (value.t = "string" /\ value.v = <<>>)

\* The calls field counts the requests sent to OPENAI_ENDPOINT.
generateWithOpenAI(snapshot, key, env) ==
    IF ~key THEN [threw |-> TRUE, error |-> "OptimizationError", calls |-> 0]
    ELSE CASE env.kind = "transportError" ->
                [threw |-> TRUE, error |-> "TypeError", calls |-> 1]
           [] env.kind = "bodyNotJson" ->
                [threw |-> TRUE, error |-> "SyntaxError", calls |-> 1]
           [] env.kind = "httpError" ->
                [threw |-> TRUE, error |-> "OptimizationError", calls |-> 1]
           [] env.kind = "noContent" ->
                [threw |-> TRUE, error |-> "OptimizationError", calls |-> 1]
           [] OTHER ->
                LET parsed == safeJsonParse(env.text)
                IN  IF falsy(parsed)
                    THEN [threw |-> TRUE, error |-> "OptimizationError", calls |-> 1]
                    ELSE [threw |-> FALSE, v |-> parsed, calls |-> 1]

\* A catch block that rethrows what is not an OptimizationError.
catchBlockRethrowing(snapshot, error) ==
    bind(generateFallbackContent(snapshot), LAMBDA fallback :
      IF error = "OptimizationError"
      THEN [raised |-> FALSE, v |-> fallback]
      ELSE [raised |-> TRUE, v |-> fallback])

\* The catch block of createOptimizedContent.
catchBlock(snapshot, error) ==
    bind(generateFallbackContent(snapshot), LAMBDA fallback :
      IF error = "OptimizationError"
      THEN [raised |-> FALSE, v |-> fallback]
      ELSE [raised |-> FALSE, v |-> fallback])

\* raised: an exception leaves the function; tier: which return statement ran.
createOptimizedContent(snapshot, key, env) ==
    bind(generateWithOpenAI(snapshot, key, env), LAMBDA aiResult :
      bind(IF aiResult.threw THEN aiResult
           ELSE sanitizeOptimizedResult(snapshot, aiResult.v), LAMBDA sanitized :
        IF sanitized.threw
        THEN bind(catchBlock(snapshot, sanitized.error), LAMBDA caught :
               [raised |-> caught.raised, v |-> caught.v, calls |-> aiResult.calls,
                tier |-> "fallback"])
        ELSE [raised |-> FALSE, v |-> sanitized.v, calls |-> aiResult.calls,
              tier |-> "model"]))

----------------------------------------------------------------------------
(* Inputs of the generator: product snapshots as fetchProductSnapshot      *)
(* returns them, and the provider's answers.                               *)

repeat(c, n) == [i \in 1..n |-> c]

\* 'TV' (2 characters)
TitleTV ==
    <<"T", "V">>

\* 'Go Up 4K !!' (11 characters)
TitleShortWords ==
    <<"G", "o", " ", "U", "p", " ", "4", "K", " ", "!", "!">>

\* 'Blue Mugs' (9 characters)
TitleBlueMugs ==
    <<"B", "l", "u", "e", " ", "M", "u", "g", "s">>

\* 'Red red RED Mug' (15 characters)
TitleRepeated ==
    <<"R", "e", "d", " ", "r", "e", "d", " ", "R", "E", "D", " ", "M", "u", "g">>

\* 'Handmade Ceramic Coffee Mug with Bamboo Lid and Spoon - Large 16oz Size' (71 characters)
TitleLong ==
    <<"H", "a", "n", "d", "m", "a", "d", "e", " ", "C", "e", "r", "a", "m", "i", "c", " ", "C",
      "o", "f", "f", "e", "e", " ", "M", "u", "g", " ", "w", "i", "t", "h", " ", "B", "a", "m",
      "b", "o", "o", " ", "L", "i", "d", " ", "a", "n", "d", " ", "S", "p", "o", "o", "n", " ",
      "-", " ", "L", "a", "r", "g", "e", " ", "1", "6", "o", "z", " ", "S", "i", "z", "e">>

\* 'Kid\'s <Toy> & "Fun" Box' (23 characters)
TitleMarkup ==
    <<"K", "i", "d", "'", "s", " ", "<", "T", "o", "y", ">", " ", "&", " ", "\"", "F", "u", "n",
      "\"", " ", "B", "o", "x">>

\* A title with a long run of blanks inside, so that the cut of enforceLength
\* lands in the run.
TitleGap == <<"M", "u", "g">> \o repeat(" ", SeoTitleMax) \o <<"S", "e", "t">>

Titles ==
    {TitleTV, TitleShortWords, TitleBlueMugs, TitleRepeated, TitleLong, TitleMarkup, TitleGap}

\* '<p>Nice &amp; sturdy mug.</p>' (29 characters)
DescriptionShort ==
    <<"<", "p", ">", "N", "i", "c", "e", " ", "&", "a", "m", "p", ";", " ", "s", "t", "u", "r",
      "d", "y", " ", "m", "u", "g", ".", "<", "/", "p", ">">>

\* ' <br> ' (6 characters)
DescriptionBreak ==
    <<" ", "<", "b", "r", ">", " ">>

\* '<div><p>This handmade ceramic mug keeps coffee hot for hours.</p><ul><li>Dishwasher safe</li><li>Holds 16oz</li></ul><p>Each piece is glazed by hand in small batches, so no two mugs look alike.</p></div>' (203 characters)
DescriptionLong ==
    <<"<", "d", "i", "v", ">", "<", "p", ">", "T", "h", "i", "s", " ", "h", "a", "n", "d", "m",
      "a", "d", "e", " ", "c", "e", "r", "a", "m", "i", "c", " ", "m", "u", "g", " ", "k", "e",
      "e", "p", "s", " ", "c", "o", "f", "f", "e", "e", " ", "h", "o", "t", " ", "f", "o", "r",
      " ", "h", "o", "u", "r", "s", ".", "<", "/", "p", ">", "<", "u", "l", ">", "<", "l", "i",
      ">", "D", "i", "s", "h", "w", "a", "s", "h", "e", "r", " ", "s", "a", "f", "e", "<", "/",
      "l", "i", ">", "<", "l", "i", ">", "H", "o", "l", "d", "s", " ", "1", "6", "o", "z", "<",
      "/", "l", "i", ">", "<", "/", "u", "l", ">", "<", "p", ">", "E", "a", "c", "h", " ", "p",
      "i", "e", "c", "e", " ", "i", "s", " ", "g", "l", "a", "z", "e", "d", " ", "b", "y", " ",
      "h", "a", "n", "d", " ", "i", "n", " ", "s", "m", "a", "l", "l", " ", "b", "a", "t", "c",
      "h", "e", "s", ",", " ", "s", "o", " ", "n", "o", " ", "t", "w", "o", " ", "m", "u", "g",
      "s", " ", "l", "o", "o", "k", " ", "a", "l", "i", "k", "e", ".", "<", "/", "p", ">", "<",
      "/", "d", "i", "v", ">">>

Descriptions == {None, Some(DescriptionBreak), Some(DescriptionShort), Some(DescriptionLong)}

TagBlue ==
    <<"B", "l", "u", "e">>

TagBlueLower ==
    <<"b", "l", "u", "e">>

TagRedPadded ==
    <<" ", "R", "e", "d", " ">>

TagQuoted ==
    <<"s", "a", "y", " ", "\"", "h", "i", "\"", ",", " ", "o", "k", "\\">>

\* n distinct tags: t1, t2, ...
manyTags(n) == [i \in 1..n |-> <<"t">> \o repeat("x", i)]

TagLists ==
    {<<>>, <<<<" ">>, <<>>>>, <<TagBlue, TagBlueLower, TagRedPadded, TagQuoted>>,
     manyTags(MaxTags + 2)}

GenSnapshots ==
    {[id |-> "A", title |-> t, descriptionHtml |-> d, tags |-> g,
      seoTitle |-> None, seoDescription |-> None] :
        t \in Titles, d \in Descriptions, g \in TagLists}

\* Candidate SEO texts around the limits min and max: too short, at each
\* limit, one past it, blank, ending in a period, and with blanks at the cut.
textsAround(min, max) ==
    {<<>>, <<" ", "\n">>, <<"O", "k", ".">>, <<" ", "a", " ">>}
      \cup {repeat("a", n) : n \in {min - 1, min, max, max + 1, 2 * max}}
      \cup {repeat("a", max - 2) \o <<" ", " ", "b", "b">>,
            <<"a", "b", "c">> \o repeat(" ", max) \o <<"x">>,
            repeat("a", min - 2) \o <<".">>}

seoValues(min, max) == {Undefined, Null, Num} \cup {Str(s) : s \in textsAround(min, max)}

\* 'Great mug for <b>coffee</b> lovers' (34 characters)
CandidatePlain ==
    <<"G", "r", "e", "a", "t", " ", "m", "u", "g", " ", "f", "o", "r", " ", "<", "b", ">", "c",
      "o", "f", "f", "e", "e", "<", "/", "b", ">", " ", "l", "o", "v", "e", "r", "s">>

\* '<P>Great mug.</P>' (17 characters)
CandidateParagraph ==
    <<"<", "P", ">", "G", "r", "e", "a", "t", " ", "m", "u", "g", ".", "<", "/", "P", ">">>

\* ' <ul><li>Great</li></ul> ' (25 characters)
CandidateList ==
    <<" ", "<", "u", "l", ">", "<", "l", "i", ">", "G", "r", "e", "a", "t", "<", "/", "l", "i",
      ">", "<", "/", "u", "l", ">", " ">>

\* 'mug, Coffee,,coffee\n gift ' (26 characters)
CandidateTagText ==
    <<"m", "u", "g", ",", " ", "C", "o", "f", "f", "e", "e", ",", ",", "c", "o", "f", "f", "e",
      "e", "\n", " ", "g", "i", "f", "t", " ">>

descriptionValues ==
    {Undefined, Num, Str(<<>>), Str(<<" ", "\n", " ">>), Str(CandidatePlain),
     Str(CandidateParagraph), Str(CandidateList)}

tagValues ==
    {Undefined, Num, Str(<<>>), Str(CandidateTagText), Arr(<<>>), Arr(<<<<" ">>>>),
     Arr(<<TagBlue, TagBlueLower, TagRedPadded>>), Arr(manyTags(MaxTags + 1))}

BaseCandidate ==
    [descriptionHtml |-> Str(CandidateParagraph),
     tags            |-> Arr(<<TagBlue, TagRedPadded, TagBlueLower>>),
     seoTitle        |-> Str(repeat("t", SeoTitleMin)),
     seoDescription  |-> Str(repeat("d", SeoDescriptionMax))]

\* The answers that parse to an object: the base candidate with one key
\* replaced by each of its candidate values, or with the key absent.
Candidates ==
    {Obj([BaseCandidate EXCEPT !.descriptionHtml = d]) : d \in descriptionValues}
      \cup {Obj([BaseCandidate EXCEPT !.tags = g]) : g \in tagValues}
      \cup {Obj([BaseCandidate EXCEPT !.seoTitle = s]) :
                s \in seoValues(SeoTitleMin, SeoTitleMax)}
      \cup {Obj([BaseCandidate EXCEPT !.seoDescription = s]) :
                s \in seoValues(SeoDescriptionMin, SeoDescriptionMax)}
      \cup {Obj([descriptionHtml |-> Str(CandidatePlain)]),
            Obj([descriptionHtml |-> Str(<<>>), tags |-> Arr(<<>>)])}

Bodies == Candidates \cup {[t |-> "invalid"], Null, Num, Str(<<"o", "k">>)}

content(lead, body, trail) == [lead |-> lead, body |-> body, trail |-> trail]

\* Every body without a fence, and the base candidate in every fence form.
Envs ==
    {[kind |-> k] : k \in {"transportError", "bodyNotJson", "httpError", "noContent"}}
      \cup {[kind |-> "content", text |-> content("none", b, "none")] : b \in Bodies}
      \cup {[kind |-> "content", text |-> content(l, Obj(BaseCandidate), t)] :
                l \in FenceLeads, t \in FenceTrails}

----------------------------------------------------------------------------
(* JSON.stringify and JSON.parse on the arrays of strings that the history *)
(* table keeps in previousTags and optimizedTags.                          *)

Quote == "\""

Backslash == "\\"

\* The escape sequence of a unit inside a JSON string.
jsonEscape(c) ==
    CASE c = Quote     -> <<Backslash, Quote>>
      [] c = Backslash -> <<Backslash, Backslash>>
      [] c = "\n"      -> <<Backslash, "n">>
      [] c = "\t"      -> <<Backslash, "t">>
      [] OTHER         -> <<c>>

jsonQuote(value) ==
    bind(value, LAMBDA s :
      <<Quote>> \o flatten([i \in 1..Len(s) |-> jsonEscape(s[i])]) \o <<Quote>>)

\* JSON.stringify(tags) for an array of strings.
jsonStringify(tags) ==
    bind(tags, LAMBDA xs :
      <<"[">> \o join([i \in 1..Len(xs) |-> jsonQuote(xs[i])], <<",">>) \o <<"]">>)

\* The number of backslashes in a row that end just before index i.
backslashesBefore(s, i) == (i - 1) - lastWhere(s, 1, i - 1, {Backslash}, FALSE)

\* The unit an escape sequence \c stands for; "BAD" when JSON has no such escape.
jsonUnescape(c) ==
    CASE c = Quote     -> Quote
      [] c = Backslash -> Backslash
      [] c = "/"       -> "/"
      [] c = "n"       -> "\n"
      [] c = "t"       -> "\t"
      [] OTHER         -> "BAD"

\* The text between two quotes, decoded: a backslash after an even number of
\* backslashes introduces an escape.
jsonDecode(value) ==
    bind(value, LAMBDA s :
      bind(SelectSeq(indices(s),
                     LAMBDA i : ~ (s[i] = Backslash /\ backslashesBefore(s, i) % 2 = 0)),
           LAMBDA kept :
        [k \in 1..Len(kept) |->
           IF kept[k] > 1 /\ s[kept[k] - 1] = Backslash
              /\ backslashesBefore(s, kept[k]) % 2 = 1
           THEN jsonUnescape(s[kept[k]]) ELSE s[kept[k]]]))

\* JSON.parse(text) as string[], for a text without blanks between its tokens
\* (JSON.stringify writes none): Thrown when the text is not an array of
\* strings in that form.  quotes are the quotes that delimit the strings; a
\* string may hold no raw control character and no unknown escape.
jsonParse(text) ==
    bind(text, LAMBDA s :
      bind(SelectSeq(indices(s),
                     LAMBDA i : s[i] = Quote /\ backslashesBefore(s, i) % 2 = 0),
           LAMBDA quotes :
        IF /\ Len(s) >= 2 /\ s[1] = "[" /\ s[Len(s)] = "]"
           /\ Len(quotes) % 2 = 0
           /\ IF quotes = <<>> THEN Len(s) = 2
              ELSE quotes[1] = 2 /\ quotes[Len(quotes)] = Len(s) - 1
           /\ \A k \in 1..(Len(quotes) \div 2 - 1) :
                quotes[2 * k + 1] = quotes[2 * k] + 2 /\ s[quotes[2 * k] + 1] = ","
           /\ \A i \in 1..Len(s) : s[i] \notin {"\n", "\t"}
        THEN bind([k \in 1..(Len(quotes) \div 2) |->
                     jsonDecode(SubSeq(s, quotes[2 * k - 1] + 1, quotes[2 * k] - 1))],
                  LAMBDA items :
               IF \E k \in 1..Len(items) : \E i \in 1..Len(items[k]) : items[k][i] = "BAD"
               THEN Thrown("SyntaxError") ELSE Ok(items))
        ELSE Thrown("SyntaxError")))

\* JSON.parse(text) for the texts a form field can hold here: an array of
\* strings, one string, the empty object and null; Thrown for the rest.  A
\* text is one JSON string exactly when it is the only item of an array.
jsonParseValue(text) ==
    bind(jsonParse(text), LAMBDA asArray :
      IF ~asArray.threw THEN Ok(Arr(asArray.v))
      ELSE IF text = <<"{", "}">> THEN Ok(Obj(<<>>))
      ELSE IF text = <<"n", "u", "l", "l">> THEN Ok(Null)
      ELSE bind(jsonParse(<<"[">> \o text \o <<"]">>), LAMBDA single :
             IF ~single.threw /\ Len(single.v) = 1 THEN Ok(Str(single.v[1]))
             ELSE Thrown("SyntaxError")))

----------------------------------------------------------------------------
(* app._index.tsx: the product store behind admin.graphql, the history     *)
(* table behind prisma.productOptimization, and optimizeProduct.           *)

\* session.shop of the request, and a shop that also uses the app.
Shop == "audit-shop.myshopify.com"

OtherShop == "other-shop.myshopify.com"

\* The products of Shop, and a product of OtherShop that Shop's admin client
\* cannot see.
Products == {"A", "B", "C"}

ForeignProduct == "Z"

\* 'Blue Stoneware Mug' (18 characters)
TitleA ==
    <<"B", "l", "u", "e", " ", "S", "t", "o", "n", "e", "w", "a", "r", "e", " ", "M", "u", "g">>

\* '<p>Glazed by hand.</p>' (22 characters)
DescriptionA ==
    <<"<", "p", ">", "G", "l", "a", "z", "e", "d", " ", "b", "y", " ", "h", "a", "n", "d", ".",
      "<", "/", "p", ">">>

\* 'Blue Stoneware Mug for Coffee and Tea' (37 characters)
SeoTitleA ==
    <<"B", "l", "u", "e", " ", "S", "t", "o", "n", "e", "w", "a", "r", "e", " ", "M", "u", "g",
      " ", "f", "o", "r", " ", "C", "o", "f", "f", "e", "e", " ", "a", "n", "d", " ", "T", "e",
      "a">>

\* 'A mug.' (6 characters)
SeoDescriptionA ==
    <<"A", " ", "m", "u", "g", ".">>

TagMug ==
    <<"m", "u", "g">>

\* 'Kid\'s "Fun" Toy Box & Shelf' (27 characters)
TitleC ==
    <<"K", "i", "d", "'", "s", " ", "\"", "F", "u", "n", "\"", " ", "T", "o", "y", " ", "B", "o",
      "x", " ", "&", " ", "S", "h", "e", "l", "f">>

\* 'Sturdy <b>pine</b> box' (22 characters)
DescriptionC ==
    <<"S", "t", "u", "r", "d", "y", " ", "<", "b", ">", "p", "i", "n", "e", "<", "/", "b", ">",
      " ", "b", "o", "x">>

\* What the store holds before the app has touched it: a product with every
\* field set, one with only a title of short words, and one whose tags and
\* title need escaping.
InitStore ==
    [p \in Products |->
       CASE p = "A" -> [title |-> TitleA, descriptionHtml |-> Some(DescriptionA),
                        tags |-> <<TagBlue, TagMug>>, seoTitle |-> Some(SeoTitleA),
                        seoDescription |-> Some(SeoDescriptionA)]
         [] p = "B" -> [title |-> TitleTV, descriptionHtml |-> None, tags |-> <<>>,
                        seoTitle |-> None, seoDescription |-> None]
         [] OTHER   -> [title |-> TitleC, descriptionHtml |-> Some(DescriptionC),
                        tags |-> <<TagQuoted, TagRedPadded>>, seoTitle |-> None,
                        seoDescription |-> Some(<<>>)]]

\* A row another shop's session wrote for its own product.
ForeignRow ==
    [id |-> 0, shop |-> OtherShop, productId |-> ForeignProduct,
     previousDescriptionHtml |-> <<>>, previousTags |-> jsonStringify(<<>>),
     previousSeoTitle |-> <<>>, previousSeoDescription |-> <<>>,
     optimizedDescriptionHtml |-> CandidateParagraph,
     optimizedTags |-> jsonStringify(<<TagBlue>>),
     optimizedSeoTitle |-> repeat("t", SeoTitleMin),
     optimizedSeoDescription |-> repeat("d", SeoDescriptionMin),
     createdAt |-> 0]

InitHistory == <<ForeignRow>>

\* fetchProductSnapshot: outcome "errors" is a payload with errors; a product
\* the admin client cannot see comes back null.
fetchProductSnapshot(st, productId, outcome) ==
    IF outcome = "errors" THEN Thrown("Unable to load product")
    ELSE IF productId \notin DOMAIN st THEN Thrown("Product not found")
    ELSE Ok([id             |-> productId,
             title          |-> st[productId].title,
             descriptionHtml |-> st[productId].descriptionHtml,
             tags           |-> st[productId].tags,
             seoTitle       |-> st[productId].seoTitle,
             seoDescription |-> st[productId].seoDescription])

\* A productUpdate that saves the input and reports userErrors all the same.
applyProductUpdateSaving(st, productId, optimized, outcome) ==
    IF productId \notin DOMAIN st
    THEN [threw |-> TRUE, error |-> "userErrors", st |-> st]
    ELSE [threw |-> outcome = "userErrors", error |-> "userErrors",
          st |-> [st EXCEPT ![productId] =
                    [title          |-> @.title,
                     descriptionHtml |-> Some(optimized.descriptionHtml),
                     tags           |-> optimized.tags,
                     seoTitle       |-> Some(optimized.seoTitle),
                     seoDescription |-> Some(optimized.seoDescription)]]]

\* applyProductUpdate: the productUpdate mutation either reports userErrors
\* and changes nothing, or sets the four fields.  st is the store after it.
applyProductUpdate(st, productId, optimized, outcome) ==
    IF outcome = "userErrors" \/ productId \notin DOMAIN st
    THEN [threw |-> TRUE, error |-> "userErrors", st |-> st]
    ELSE [threw |-> FALSE,
          st |-> [st EXCEPT ![productId] =
                    [title          |-> @.title,
                     descriptionHtml |-> Some(optimized.descriptionHtml),
                     tags           |-> optimized.tags,
                     seoTitle       |-> Some(optimized.seoTitle),
                     seoDescription |-> Some(optimized.seoDescription)]]]

\* A create that keeps one row per product, as an upsert would.
createReplacing(hist, data, outcome) ==
    IF outcome = "fails" THEN [threw |-> TRUE, error |-> "PrismaClientError", hist |-> hist]
    ELSE [threw |-> FALSE,
          hist |-> Append(SelectSeq(hist, LAMBDA r : ~(r.shop = data.shop
                                                       /\ r.productId = data.productId)),
                          [id                       |-> Len(hist),
                           shop                     |-> data.shop,
                           productId                |-> data.productId,
                           previousDescriptionHtml  |-> data.previousDescriptionHtml,
                           previousTags             |-> data.previousTags,
                           previousSeoTitle         |-> data.previousSeoTitle,
                           previousSeoDescription   |-> data.previousSeoDescription,
                           optimizedDescriptionHtml |-> data.optimizedDescriptionHtml,
                           optimizedTags            |-> data.optimizedTags,
                           optimizedSeoTitle        |-> data.optimizedSeoTitle,
                           optimizedSeoDescription  |-> data.optimizedSeoDescription,
                           createdAt                |-> Len(hist)])]

\* prisma.productOptimization.create: the row gets the next id and the
\* current time, which is later than that of every row before it.
create(hist, data, outcome) ==
    IF outcome = "fails" THEN [threw |-> TRUE, error |-> "PrismaClientError", hist |-> hist]
    ELSE [threw |-> FALSE,
          hist |-> Append(hist, [id                       |-> Len(hist),
                                 shop                     |-> data.shop,
                                 productId                |-> data.productId,
                                 previousDescriptionHtml  |-> data.previousDescriptionHtml,
                                 previousTags             |-> data.previousTags,
                                 previousSeoTitle         |-> data.previousSeoTitle,
                                 previousSeoDescription   |-> data.previousSeoDescription,
                                 optimizedDescriptionHtml |-> data.optimizedDescriptionHtml,
                                 optimizedTags            |-> data.optimizedTags,
                                 optimizedSeoTitle        |-> data.optimizedSeoTitle,
                                 optimizedSeoDescription  |-> data.optimizedSeoDescription,
                                 createdAt                |-> Len(hist)])]

\* A findFirst with where: {productId}.
findFirstAnyShop(hist, shop, productId) ==
    bind(SelectSeq(hist, LAMBDA r : r.productId = productId), LAMBDA rows :
      IF rows = <<>> THEN <<>>
      ELSE <<CHOOSE r \in {rows[i] : i \in 1..Len(rows)} :
               \A i \in 1..Len(rows) : rows[i].createdAt <= r.createdAt>>)

\* A findFirst with orderBy: {createdAt: "asc"}.
findFirstOldest(hist, shop, productId) ==
    bind(SelectSeq(hist, LAMBDA r : r.shop = shop /\ r.productId = productId),
         LAMBDA rows :
      IF rows = <<>> THEN <<>>
      ELSE <<CHOOSE r \in {rows[i] : i \in 1..Len(rows)} :
               \A i \in 1..Len(rows) : rows[i].createdAt >= r.createdAt>>)

\* prisma.productOptimization.findFirst({where: {shop, productId},
\* orderBy: {createdAt: "desc"}}): the row, or <<>> for null.
findFirst(hist, shop, productId) ==
    bind(SelectSeq(hist, LAMBDA r : r.shop = shop /\ r.productId = productId),
         LAMBDA rows :
      IF rows = <<>> THEN <<>>
      ELSE <<CHOOSE r \in {rows[i] : i \in 1..Len(rows)} :
               \A i \in 1..Len(rows) : rows[i].createdAt <= r.createdAt>>)

\* What the environment does during one optimizeProduct: the answer to the
\* snapshot query, the provider's answer, the answer to the mutation and the
\* outcome of the insert.
scenario(fetch, ai, write, append) ==
    [fetch |-> fetch, ai |-> ai, write |-> write, append |-> append]

\* The data of the row optimizeProduct creates.
historyData(shop, productId, snapshot, optimized) ==
    [shop                     |-> shop,
     productId                |-> productId,
     previousDescriptionHtml  |-> orElse(snapshot.descriptionHtml, <<>>),
     previousTags             |-> jsonStringify(snapshot.tags),
     previousSeoTitle         |-> orElse(snapshot.seoTitle, <<>>),
     previousSeoDescription   |-> orElse(snapshot.seoDescription, <<>>),
     optimizedDescriptionHtml |-> optimized.descriptionHtml,
     optimizedTags            |-> jsonStringify(optimized.tags),
     optimizedSeoTitle        |-> optimized.seoTitle,
     optimizedSeoDescription  |-> optimized.seoDescription]

\* optimizeProduct on the store st and the table hist.  stage is the await
\* that threw ("fetch", "write", "append"), or "done".
optimizeProduct(st, hist, key, shop, productId, sc) ==
    bind(fetchProductSnapshot(st, productId, sc.fetch), LAMBDA snapshot :
      IF snapshot.threw
      THEN [threw |-> TRUE, stage |-> "fetch", error |-> snapshot.error,
            st |-> st, hist |-> hist]
      ELSE bind(createOptimizedContent(snapshot.v, key, sc.ai).v, LAMBDA optimized :
        bind(applyProductUpdate(st, productId, optimized, sc.write), LAMBDA applied :
          IF applied.threw
          THEN [threw |-> TRUE, stage |-> "write", error |-> applied.error,
                st |-> applied.st, hist |-> hist]
          ELSE bind(create(hist, historyData(shop, productId, snapshot.v, optimized),
                           sc.append), LAMBDA created :
                 [threw |-> created.threw,
                  stage |-> IF created.threw THEN "append" ELSE "done",
                  error |-> IF created.threw THEN created.error ELSE "",
                  st    |-> applied.st,
                  hist  |-> created.hist]))))

----------------------------------------------------------------------------
(* app._index.tsx, action: one request per step.  last is the response of  *)
(* the latest request together with what its optimizeProduct calls did;    *)
(* used counts the requests and the optimizeProduct calls so far.  For a    *)
(* rollback, last.streak counts the successful rollbacks of that product   *)
(* that ended with it, one straight after the other.                       *)

\* The most requests in a behaviour, the most optimizeProduct calls in a
\* behaviour, and the longest productIds list of one bulk request.
MaxRequests == 3

MaxAttempts == 3

MaxBatch == 3

\* The provider's answer during a request: the base candidate inside a json
\* code fence.
OrchEnvs ==
    {[kind |-> "content", text |-> content("fenceJson", Obj(BaseCandidate), "fence")]}

\* What the environment can do during one optimizeProduct.  Without a key the
\* provider is never asked, so its answer is left out.
Scenarios(key) ==
    LET answers == IF key THEN OrchEnvs ELSE {[kind |-> "unused"]}
    IN  {scenario("errors", [kind |-> "unused"], "ok", "ok")}
          \cup {scenario("ok", ai, "userErrors", "ok") : ai \in answers}
          \cup {scenario("ok", ai, "ok", "fails") : ai \in answers}
          \cup {scenario("ok", ai, "ok", "ok") : ai \in answers}

\* String(formData.get("productId") ?? ""): a product of the shop, a product
\* of another shop, or no field at all.
ProductIdFields == Products \cup {ForeignProduct, ""}

\* The characters of a product id, and the id that a text spells.
idText(productId) == IF productId = "" THEN <<>> ELSE <<productId>>

idOf(chars) == IF Len(chars) = 1 THEN chars[1] ELSE ""

\* 'A,B' (3 characters)
NotJson ==
    <<"A", ",", "B">>

\* The lists of product ids a bulk request selects: the first n products in
\* the order of the page, and one product selected twice.
ProductOrder == <<"A", "B", "C">>

BulkLists ==
    {[i \in 1..n |-> ProductOrder[((i - 1) % Len(ProductOrder)) + 1]] : n \in 1..MaxBatch}
      \cup {<<>>, <<"B", "B">>}

\* JSON texts that are not arrays: '{}', 'null' and '"A"'.
NotArrays ==
    {<<"{", "}">>, <<"n", "u", "l", "l">>, <<"\"", "A", "\"">>}

\* formData.get("productIds"): no field, text that is not JSON, JSON that is
\* not an array, and the JSON text of a list of product ids.
ProductIdsFields ==
    {Undefined, Str(NotJson)}
      \cup {Str(s) : s \in NotArrays}
      \cup {Str(jsonStringify([i \in 1..Len(l) |-> idText(l[i])])) : l \in BulkLists}

NoProductsSelected == "No products were selected for bulk optimization"

\* A bulk intent that starts its loop on an empty array.
bulkProductIdsAllowingEmpty(productIdsRaw) ==
    IF productIdsRaw.t # "string" THEN Thrown(NoProductsSelected)
    ELSE bind(jsonParseValue(productIdsRaw.v), LAMBDA parsed :
           IF parsed.threw THEN Thrown(NoProductsSelected)
           ELSE IF parsed.v.t # "array" THEN Thrown(NoProductsSelected)
           ELSE Ok([i \in 1..Len(parsed.v.v) |-> idOf(parsed.v.v[i])]))

\* The bulk intent up to its loop: the product ids, or the Error thrown.
bulkProductIds(productIdsRaw) ==
    IF productIdsRaw.t # "string" THEN Thrown(NoProductsSelected)
    ELSE bind(jsonParseValue(productIdsRaw.v), LAMBDA parsed :
           IF parsed.threw THEN Thrown(NoProductsSelected)
           ELSE IF parsed.v.t # "array" \/ Len(parsed.v.v) = 0
                THEN Thrown(NoProductsSelected)
           ELSE Ok([i \in 1..Len(parsed.v.v) |-> idOf(parsed.v.v[i])]))

\* The loop's variables before its first pass; items lists, per pass, the
\* product id and the stage optimizeProduct ended in.
loopStart(st, hist) ==
    [st |-> st, hist |-> hist, optimized |-> 0, failed |-> 0, items |-> <<>>]

\* One pass of the loop of the bulk intent.
loopPass(run, key, shop, productId, sc) ==
    bind(optimizeProduct(run.st, run.hist, key, shop, productId, sc), LAMBDA r :
      [st        |-> r.st,
       hist      |-> r.hist,
       optimized |-> IF r.threw THEN run.optimized ELSE run.optimized + 1,
       failed    |-> IF r.threw THEN run.failed + 1 ELSE run.failed,
       items     |-> Append(run.items, [productId |-> productId, stage |-> r.stage])])

RECURSIVE bulkLoopAborting(_, _, _, _)
\* A loop without the try around optimizeProduct: the first failure ends it.
bulkLoopAborting(run, key, shop, productIds) ==
    IF productIds = <<>> \/ run.failed > 0 THEN {run}
    ELSE UNION {bind(loopPass(run, key, shop, Head(productIds), sc), LAMBDA next :
                  bulkLoopAborting(next, key, shop, Tail(productIds))) :
                    sc \in Scenarios(key)}

RECURSIVE bulkLoop(_, _, _, _)
\* The loop of the bulk intent over productIds: the loop's variables after
\* its last pass, for every course the environment can take.
bulkLoop(run, key, shop, productIds) ==
    IF productIds = <<>> THEN {run}
    ELSE UNION {bind(loopPass(run, key, shop, Head(productIds), sc), LAMBDA next :
                  bulkLoop(next, key, shop, Tail(productIds))) :
                    sc \in Scenarios(key)}

\* The rollback intent from the record it found to the content it writes.
previousContent(record) ==
    [descriptionHtml |-> record.previousDescriptionHtml,
     tags            |-> IF record.previousTags = <<>> THEN <<>>
                         ELSE bind(jsonParse(record.previousTags), LAMBDA parsed :
                                IF parsed.threw THEN <<>> ELSE parsed.v),
     seoTitle        |-> record.previousSeoTitle,
     seoDescription  |-> record.previousSeoDescription]

\* A rollback that records what it replaces, as optimizeProduct does.
rollbackChained(st, hist, shop, productId, outcome) ==
    bind(findFirst(hist, shop, productId), LAMBDA found :
      IF found = <<>>
      THEN [threw |-> TRUE, error |-> "No saved version is available for this product",
            write |-> FALSE, st |-> st, hist |-> hist]
      ELSE bind(applyProductUpdate(st, productId, previousContent(found[1]), outcome),
                LAMBDA applied :
             [threw |-> applied.threw,
              error |-> IF applied.threw THEN applied.error ELSE "",
              write |-> TRUE, st |-> applied.st,
              hist  |-> IF applied.threw THEN hist
                        ELSE create(hist,
                                    historyData(shop, productId,
                                                fetchProductSnapshot(st, productId, "ok").v,
                                                previousContent(found[1])),
                                    "ok").hist]))

\* The rollback intent for a product id that is not empty.  write tells
\* whether applyProductUpdate was called.
rollbackProduct(st, hist, shop, productId, outcome) ==
    bind(findFirst(hist, shop, productId), LAMBDA found :
      IF found = <<>>
      THEN [threw |-> TRUE, error |-> "No saved version is available for this product",
            write |-> FALSE, st |-> st, hist |-> hist]
      ELSE bind(applyProductUpdate(st, productId, previousContent(found[1]), outcome),
                LAMBDA applied :
             [threw |-> applied.threw,
              error |-> IF applied.threw THEN applied.error ELSE "",
              write |-> TRUE, st |-> applied.st, hist |-> hist]))

UsedIdle == [requests |-> 0, attempts |-> 0]

GenIdle == [phase |-> "idle"]

LastIdle == [intent |-> "none"]

Init ==
    /\ apiKey \in BOOLEAN
    /\ store = InitStore
    /\ history = InitHistory
    /\ last = LastIdle
    /\ used = UsedIdle
    /\ gen = GenIdle

\* intent "optimize"
Optimize ==
    /\ gen = GenIdle
    /\ used.requests < MaxRequests
    /\ \E productId \in ProductIdFields :
         IF productId = ""
         THEN /\ last' = [intent |-> "optimize", productId |-> productId, items |-> <<>>,
                          response |-> [success |-> FALSE,
                                        error |-> "A product id is required"]]
              /\ used' = [used EXCEPT !.requests = @ + 1]
              /\ UNCHANGED <<store, history>>
         ELSE /\ used.attempts < MaxAttempts
              /\ \E sc \in Scenarios(apiKey) :
                   \E r \in {optimizeProduct(store, history, apiKey, Shop, productId, sc)} :
                     /\ store' = r.st
                     /\ history' = r.hist
                     /\ used' = [requests |-> used.requests + 1,
                                 attempts |-> used.attempts + 1]
                     /\ last' = [intent |-> "optimize", productId |-> productId,
                                 items |-> <<[productId |-> productId, stage |-> r.stage]>>,
                                 response |-> [success |-> ~r.threw, error |-> r.error]]
    /\ UNCHANGED <<apiKey, gen>>

\* intent "bulk"
Bulk ==
    /\ gen = GenIdle
    /\ used.requests < MaxRequests
    /\ \E productIdsRaw \in ProductIdsFields :
         \E productIds \in {bulkProductIds(productIdsRaw)} :
           IF productIds.threw
           THEN /\ last' = [intent |-> "bulk", raw |-> productIdsRaw,
                            productIds |-> <<>>, items |-> <<>>,
                            response |-> [success |-> FALSE, error |-> productIds.error]]
                /\ used' = [used EXCEPT !.requests = @ + 1]
                /\ UNCHANGED <<store, history>>
           ELSE /\ used.attempts + Len(productIds.v) <= MaxAttempts
                /\ \E run \in bulkLoop(loopStart(store, history), apiKey, Shop,
                                       productIds.v) :
                     /\ store' = run.st
                     /\ history' = run.hist
                     /\ used' = [requests |-> used.requests + 1,
                                 attempts |-> used.attempts + Len(productIds.v)]
                     /\ last' = [intent |-> "bulk", raw |-> productIdsRaw,
                                 productIds |-> productIds.v, items |-> run.items,
                                 response |-> [success   |-> run.failed = 0,
                                               optimized |-> run.optimized,
                                               failed    |-> run.failed,
                                               error     |-> IF run.failed = 0 THEN ""
                                                             ELSE "failed to optimize"]]
    /\ UNCHANGED <<apiKey, gen>>

\* intent "rollback"
Rollback ==
    /\ gen = GenIdle
    /\ used.requests < MaxRequests
    /\ used' = [used EXCEPT !.requests = @ + 1]
    /\ \E productId \in ProductIdFields :
         IF productId = ""
         THEN /\ last' = [intent |-> "rollback", productId |-> productId, items |-> <<>>,
                          write |-> FALSE, streak |-> 0,
                          response |-> [success |-> FALSE,
                                        error |-> "A product id is required to rollback"]]
              /\ UNCHANGED <<store, history>>
         ELSE \E outcome \in {"ok", "userErrors"} :
                \E r \in {rollbackProduct(store, history, Shop, productId, outcome)} :
                  /\ store' = r.st
                  /\ history' = r.hist
                  /\ last' = [intent |-> "rollback", productId |-> productId,
                              items |-> <<>>, write |-> r.write,
                              streak |-> IF r.threw THEN 0
                                         ELSE IF /\ last.intent = "rollback"
                                                 /\ last.productId = productId
                                                 /\ last.response.success
                                              THEN last.streak + 1
                                              ELSE 1,
                              response |-> [success |-> ~r.threw, error |-> r.error]]
    /\ UNCHANGED <<apiKey, gen>>

\* Any other intent, or none.
Unsupported ==
    /\ gen = GenIdle
    /\ used.requests < MaxRequests
    /\ used' = [used EXCEPT !.requests = @ + 1]
    /\ \E intent \in {"", "delete"} :
         last' = [intent |-> intent, items |-> <<>>,
                  response |-> [success |-> FALSE, error |-> "Unsupported action"]]
    /\ UNCHANGED <<apiKey, store, history, gen>>

Next == Optimize \/ Bulk \/ Rollback \/ Unsupported

Spec == Init /\ [][Next]_vars

----------------------------------------------------------------------------
(* Properties of the requests.                                             *)

\* The rows of hist that Shop holds for productId, oldest first.
rowsOf(hist, productId) ==
    SelectSeq(hist, LAMBDA r : r.shop = Shop /\ r.productId = productId)

\* The passes among items that are for a product of ids and ended in a stage
\* of stages.
passes(items, ids, stages) ==
    {i \in 1..Len(items) : items[i].productId \in ids /\ items[i].stage \in stages}

AllIds == Products \cup {ForeignProduct}

Stages == {"fetch", "write", "append", "done"}

\* The step is a request that called optimizeProduct.
attempted == used'.attempts > used.attempts

\* The step is a request of the rollback intent that wrote and succeeded.
rolledBack ==
    /\ used'.requests > used.requests
    /\ last'.intent = "rollback"
    /\ last'.response.success

\* The store with the content generated for productId written to it.
storeAfterApply(st, key, productId, ai) ==
    applyProductUpdate(st, productId,
                       createOptimizedContent(fetchProductSnapshot(st, productId, "ok").v,
                                              key, ai).v,
                       "ok").st

\* The four fields of a product as the row's previous fields hold them.
restoredFrom(record) ==
    [descriptionHtml |-> Some(record.previousDescriptionHtml),
     tags            |-> jsonParse(record.previousTags).v,
     seoTitle        |-> Some(record.previousSeoTitle),
     seoDescription  |-> Some(record.previousSeoDescription)]

\* The four fields of a product as the row's optimized fields hold them.
optimizedIn(record) ==
    [descriptionHtml |-> Some(record.optimizedDescriptionHtml),
     tags            |-> jsonParse(record.optimizedTags).v,
     seoTitle        |-> Some(record.optimizedSeoTitle),
     seoDescription  |-> Some(record.optimizedSeoDescription)]

fieldsOf(product) ==
    [descriptionHtml |-> product.descriptionHtml,
     tags            |-> product.tags,
     seoTitle        |-> product.seoTitle,
     seoDescription  |-> product.seoDescription]

\* C1 as the specification states it: whenever a single optimization attempt
\* fails, at fetch, apply or history append, the product store and the
\* history store are exactly as they were before the attempt.
C1_FailedAttemptChangesNothing ==
    [][(attempted /\ last'.intent = "optimize" /\ ~last'.response.success)
         => (store' = store /\ history' = history)]_vars

\* C1, amended: an attempt that fails at fetch or apply leaves the product
\* and its history rows exactly as they were; an attempt that fails at the
\* history append leaves the history store as it was, while the product store
\* holds the content generated for the product.
C1_FailedAttemptUntilApply ==
    [][attempted =>
         /\ \A p \in AllIds :
              passes(last'.items, {p}, {"append", "done"}) = {}
                => /\ p \in DOMAIN store => store'[p] = store[p]
                   /\ rowsOf(history', p) = rowsOf(history, p)
         /\ (last'.intent = "optimize" /\ last'.items[1].stage \in {"fetch", "write"})
              => (store' = store /\ history' = history)
         /\ (last'.intent = "optimize" /\ last'.items[1].stage = "append")
              => /\ history' = history
                 /\ \E sc \in Scenarios(apiKey) :
                      /\ sc.fetch = "ok"
                      /\ store' = storeAfterApply(store, apiKey, last'.productId, sc.ai)]_vars

\* A single attempt failed at the history append, after its apply.
C1_AppendFailed ==
    /\ last.intent = "optimize"
    /\ ~last.response.success
    /\ last.items[1].stage = "append"
    /\ store[last.productId] # InitStore[last.productId]
    /\ history = InitHistory

\* C2: a bulk request attempts every id of its list, whatever failed before;
\* optimized counts the passes that succeeded and failed the others, so they
\* add up to the length of the list; each product gets one new history row
\* per pass of it that succeeded, so none for a pass whose write failed.
C2_BulkIsolation ==
    [][(attempted /\ last'.intent = "bulk") =>
         LET items == last'.items
             ids   == last'.productIds
         IN  /\ Len(items) = Len(ids)
             /\ \A i \in 1..Len(ids) : items[i].productId = ids[i]
             /\ last'.response.optimized = Cardinality(passes(items, AllIds, {"done"}))
             /\ last'.response.failed =
                  Cardinality(passes(items, AllIds, Stages \ {"done"}))
             /\ last'.response.optimized + last'.response.failed = Len(ids)
             /\ last'.response.success = (last'.response.failed = 0)
             /\ \A p \in AllIds :
                  Len(rowsOf(history', p)) =
                    Len(rowsOf(history, p)) + Cardinality(passes(items, {p}, {"done"}))]_vars

\* The bulk request over A, B, C in which only the write of B failed.
C2_MiddleWriteFailed ==
    /\ last.intent = "bulk"
    /\ last.productIds = <<"A", "B", "C">>
    /\ Len(last.items) = 3
    /\ <<last.items[1].stage, last.items[2].stage, last.items[3].stage>>
         = <<"done", "write", "done">>
    /\ last.response.optimized = 2
    /\ last.response.failed = 1
    /\ Len(rowsOf(history, "A")) = 1
    /\ Len(rowsOf(history, "B")) = 0
    /\ Len(rowsOf(history, "C")) = 1

\* C3: a rollback that succeeds leaves the product with exactly the
\* description, tags, SEO title and SEO description that the most recent
\* history row of the product holds as previous, the tags parsed back from
\* their JSON text, leaves the other products alone and leaves the history
\* store as it was.
C3_RollbackRestoresPrevious ==
    [][rolledBack =>
         LET p    == last'.productId
             rows == rowsOf(history, p)
         IN  /\ rows # <<>>
             /\ ~jsonParse(rows[Len(rows)].previousTags).threw
             /\ fieldsOf(store'[p]) = restoredFrom(rows[Len(rows)])
             /\ jsonStringify(store'[p].tags) = rows[Len(rows)].previousTags
             /\ store'[p].title = store[p].title
             /\ \A q \in Products \ {p} : store'[q] = store[q]
             /\ history' = history]_vars

\* A product optimized twice and then rolled back; and the product whose
\* tags need escaping, rolled back to them.
C3_RolledBackToLatest ==
    /\ last.intent = "rollback"
    /\ last.response.success
    /\ \/ /\ Len(rowsOf(history, last.productId)) = 2
          /\ fieldsOf(store[last.productId])
               = optimizedIn(rowsOf(history, last.productId)[1])
       \/ /\ last.productId = "C"
          /\ store["C"].tags = <<TagQuoted, TagRedPadded>>
          /\ store["C"].seoTitle = Some(<<>>)

\* C4: a rollback that follows a rollback of the same product, both
\* successful, leaves the product store and the history store as the first
\* left them, and the product does not hold the optimized version of its
\* most recent row again.
C4_RollbackIdempotent ==
    [][(/\ rolledBack
        /\ last.intent = "rollback"
        /\ last.response.success
        /\ last.productId = last'.productId) =>
         LET p    == last'.productId
             rows == rowsOf(history, p)
         IN  /\ store' = store
             /\ history' = history
             /\ last'.streak = last.streak + 1
             /\ restoredFrom(rows[Len(rows)]) # optimizedIn(rows[Len(rows)])
                  => fieldsOf(store'[p]) # optimizedIn(rows[Len(rows)])]_vars

\* Two rollbacks of a product in a row, after an optimization that changed it.
C4_RolledBackTwice ==
    /\ last.intent = "rollback"
    /\ last.response.success
    /\ last.streak >= 2
    /\ LET rows == rowsOf(history, last.productId)
       IN  /\ fieldsOf(store[last.productId]) = restoredFrom(rows[Len(rows)])
           /\ fieldsOf(store[last.productId]) # optimizedIn(rows[Len(rows)])

\* C5 as the specification states it: no row is ever changed or removed, and
\* every apply that an optimization made successfully is followed by exactly
\* one new row.
C5_EveryApplyRecorded ==
    [][/\ Len(history') >= Len(history)
       /\ SubSeq(history', 1, Len(history)) = history
       /\ attempted
            => Len(history') = Len(history)
                 + Cardinality(passes(last'.items, AllIds, {"append", "done"}))]_vars

\* C5, amended: no row is ever changed or removed; a request adds one row
\* per optimization that ran to its end, after the rows that were there, and
\* none for an apply whose append failed; the row of a single optimization
\* holds the product's fields from before it as previous and the fields
\* written to the product as optimized.
C5_HistoryAppendOnly ==
    [][/\ Len(history') >= Len(history)
       /\ SubSeq(history', 1, Len(history)) = history
       /\ Len(history') = Len(history)
            + (IF attempted THEN Cardinality(passes(last'.items, AllIds, {"done"})) ELSE 0)
       /\ (attempted /\ last'.intent = "optimize" /\ last'.response.success) =>
            LET p   == last'.productId
                row == history'[Len(history')]
            IN  /\ row.shop = Shop
                /\ row.productId = p
                /\ row.previousDescriptionHtml = orElse(store[p].descriptionHtml, <<>>)
                /\ row.previousTags = jsonStringify(store[p].tags)
                /\ row.previousSeoTitle = orElse(store[p].seoTitle, <<>>)
                /\ row.previousSeoDescription = orElse(store[p].seoDescription, <<>>)
                /\ optimizedIn(row) = fieldsOf(store'[p])
                /\ \A i \in 1..Len(history) : history[i].createdAt < row.createdAt]_vars

\* A product optimized twice in one bulk request: the append of the first
\* pass failed, the second pass ran to its end.
C5_SecondPassRecorded ==
    /\ last.intent = "bulk"
    /\ last.productIds = <<"B", "B">>
    /\ Len(last.items) = 2
    /\ last.items[1].stage = "append"
    /\ last.items[2].stage = "done"
    /\ Len(history) = Len(InitHistory) + 1
    /\ history[1] = ForeignRow

\* The step is a request of the bulk intent.
bulkRequested == used'.requests > used.requests /\ last'.intent = "bulk"

\* The productIds field is the JSON text of a list of at least one product id.
selectsProducts(raw) ==
    \E l \in BulkLists :
      l # <<>> /\ raw = Str(jsonStringify([i \in 1..Len(l) |-> idText(l[i])]))

\* The response of a bulk request that threw before its loop: it reports no
\* counts.
failedAsWhole(response) == "optimized" \notin DOMAIN response

\* C11: a bulk request fails as a whole exactly when its productIds field is
\* absent, not JSON, not an array or an empty array, and then no
\* optimizeProduct call, so no fetch, write or append, was made and both
\* stores are as they were; with a list of product ids it answers with its
\* counts, however many passes failed.
C11_BulkPrecondition ==
    [][bulkRequested =>
         /\ failedAsWhole(last'.response) <=> ~selectsProducts(last'.raw)
         /\ failedAsWhole(last'.response) =>
              /\ last'.response.error = NoProductsSelected
              /\ ~last'.response.success
              /\ last'.items = <<>>
              /\ used'.attempts = used.attempts
              /\ store' = store
              /\ history' = history
         /\ ~failedAsWhole(last'.response) =>
              /\ Len(last'.items) = Len(last'.productIds)
              /\ last'.response.optimized + last'.response.failed = Len(last'.items)]_vars

\* A bulk request whose field was JSON but no array failed as a whole, after
\* an optimization had changed the stores.
C11_NotAnArrayRefused ==
    /\ last.intent = "bulk"
    /\ last.raw \in {Str(s) : s \in NotArrays}
    /\ failedAsWhole(last.response)
    /\ Len(history) > Len(InitHistory)

\* The step is a request of the rollback intent that names a product.
rollbackRequested ==
    /\ used'.requests > used.requests
    /\ last'.intent = "rollback"
    /\ last'.productId # ""

\* C12: a rollback of a product for which the history store holds no row of
\* this shop fails with the no-history error, without a write to the product
\* store and without a new row; when such rows exist the rollback writes, and
\* what it restores are the previous fields of the row created last among
\* the rows of this shop and product.
C12_RollbackNeedsHistory ==
    [][rollbackRequested =>
         LET p    == last'.productId
             rows == {r \in {history[i] : i \in 1..Len(history)} :
                        r.shop = Shop /\ r.productId = p}
         IN  /\ rows = {} =>
                  /\ ~last'.response.success
                  /\ last'.response.error
                       = "No saved version is available for this product"
                  /\ ~last'.write
                  /\ store' = store
                  /\ history' = history
             /\ rows # {} =>
                  /\ last'.write
                  /\ history' = history
                  /\ ~last'.response.success => store' = store
                  /\ last'.response.success =>
                       \E r \in rows :
                         /\ \A o \in rows : o.createdAt <= r.createdAt
                         /\ fieldsOf(store'[p]) = restoredFrom(r)]_vars

\* A rollback of the product of another shop, whose row the history store
\* holds, failed for want of a row of this shop.
C12_ForeignRowIgnored ==
    /\ last.intent = "rollback"
    /\ last.productId = ForeignProduct
    /\ \E i \in 1..Len(history) :
         history[i].productId = ForeignProduct /\ history[i].shop = OtherShop
    /\ ~last.response.success
    /\ last.response.error = "No saved version is available for this product"
    /\ ~last.write

\* A bulk request all of whose passes failed, and which answered with counts.
C11_AllPassesFailed ==
    /\ last.intent = "bulk"
    /\ ~failedAsWhole(last.response)
    /\ last.response.optimized = 0
    /\ last.response.failed = Len(last.productIds)
    /\ Len(last.productIds) > 1

----------------------------------------------------------------------------
(* The generator on its own: one call of createOptimizedContent per        *)
(* behaviour, on any snapshot, with or without a credential, against any   *)
(* answer of the provider.                                                 *)

InitGen ==
    /\ apiKey \in BOOLEAN
    /\ store = InitStore
    /\ history = InitHistory
    /\ last = LastIdle
    /\ used = UsedIdle
    /\ gen \in {[phase |-> "ready", snapshot |-> s] : s \in GenSnapshots}

\* env is recorded only when the call reaches the provider.
Generate ==
    /\ gen.phase = "ready"
    /\ \E env \in Envs :
         \E out \in {createOptimizedContent(gen.snapshot, apiKey, env)} :
           gen' = [phase    |-> "done",
                   snapshot |-> gen.snapshot,
                   env      |-> IF out.calls > 0 THEN env ELSE [kind |-> "unused"],
                   out      |-> out]
    /\ UNCHANGED <<apiKey, store, history, last, used>>

NextGen == Generate

SpecGen == InitGen /\ [][NextGen]_vars

----------------------------------------------------------------------------
(* Properties of the generator.                                            *)

\* createOptimizedContent has returned or thrown.
generated == gen.phase = "done"

\* The model-backed attempt failed: no credential, no usable answer, an
\* answer that is not JSON, or an exception while sanitizing the answer.
attemptFailed ==
    \/ ~apiKey
    \/ gen.env.kind # "content"
    \/ falsy(safeJsonParse(gen.env.text))
    \/ sanitizeOptimizedResult(gen.snapshot, safeJsonParse(gen.env.text)).threw

OptimizedContentKeys == {"descriptionHtml", "tags", "seoTitle", "seoDescription"}

\* No two of the tags are equal ignoring case.
distinctIgnoringCase(tags) ==
    \A i, j \in 1..Len(tags) : i # j => toLowerCase(tags[i]) # toLowerCase(tags[j])

tagsWithinBounds(tags) ==
    Len(tags) >= 1 /\ Len(tags) <= MaxTags /\ distinctIgnoringCase(tags)

seoWithinBounds(optimized) ==
    /\ Len(optimized.seoTitle) >= SeoTitleMin
    /\ Len(optimized.seoTitle) <= SeoTitleMax
    /\ Len(optimized.seoDescription) >= SeoDescriptionMin
    /\ Len(optimized.seoDescription) <= SeoDescriptionMax

hasBlockElement(descriptionHtml) ==
    descriptionHtml # <<>>
      /\ \E m \in BlockMarkers : includesIgnoreCase(descriptionHtml, m)

\* C6: createOptimizedContent never throws to its caller; it returns an
\* OptimizedContent, and whenever the model-backed attempt failed, in any way,
\* the content returned is the fallback content of the snapshot.
C6_GenerateNeverRaises ==
    generated =>
      /\ ~gen.out.raised
      /\ DOMAIN gen.out.v = OptimizedContentKeys
      /\ attemptFailed <=> gen.out.tier = "fallback"
      /\ attemptFailed => gen.out.v = generateFallbackContent(gen.snapshot)

\* The provider answered with JSON, and sanitizing the answer threw.
C6_SanitizerThrew ==
    /\ generated
    /\ apiKey
    /\ gen.env.kind = "content"
    /\ ~falsy(safeJsonParse(gen.env.text))
    /\ sanitizeOptimizedResult(gen.snapshot, safeJsonParse(gen.env.text)).threw
    /\ ~gen.out.raised
    /\ gen.out.v = generateFallbackContent(gen.snapshot)

\* C7: without a credential the provider is never called, and the content
\* returned has 1 to 8 tags, an SEO title of 35 to 60 characters, an SEO
\* description of 110 to 160 characters and a description that is not empty.
C7_NoCredentialWithinBounds ==
    (generated /\ ~apiKey) =>
      /\ gen.out.calls = 0
      /\ tagsWithinBounds(gen.out.v.tags)
      /\ seoWithinBounds(gen.out.v)
      /\ gen.out.v.descriptionHtml # <<>>

\* C8: whatever tier produced the content returned, its SEO title has 35 to
\* 60 characters and its SEO description 110 to 160.
C8_SeoLengths ==
    generated => seoWithinBounds(gen.out.v)

\* The model's SEO title was cut to the maximum, and its SEO description was
\* kept as it came.
C8_TitleCutAtMax ==
    /\ generated
    /\ gen.out.tier = "model"
    /\ prop(safeJsonParse(gen.env.text), "seoTitle").t = "string"
    /\ Len(prop(safeJsonParse(gen.env.text), "seoTitle").v) > SeoTitleMax
    /\ Len(gen.out.v.seoTitle) = SeoTitleMax
    /\ gen.out.v.seoTitle[SeoTitleMax] = Ellipsis

\* C9: for a snapshot whose title is not empty, whatever tier produced the
\* content returned, it has at least 1 and at most 8 tags, no two of them
\* equal ignoring case.
C9_TagsWithinBounds ==
    (generated /\ gen.snapshot.title # <<>>) => tagsWithinBounds(gen.out.v.tags)

\* C10: whatever tier produced the content returned, its description is not
\* empty and holds a block element; a blank description from the model does
\* not reach the caller.
C10_DescriptionHasBlock ==
    generated => hasBlockElement(gen.out.v.descriptionHtml)

----------------------------------------------------------------------------
(* app._index.tsx, loader: the health of a product's four fields.          *)

\* The thresholds of evaluateDescription, evaluateTags, evaluateSeoTitle and
\* evaluateSeoDescription.
WeakWordCount == 60

WeakTagCount == 3

HealthTitleMin == 35

HealthTitleMax == 60

HealthDescriptionMin == 110

HealthDescriptionMax == 160

\* An evaluateDescription that also calls WeakWordCount words weak.
evaluateDescriptionInclusive(descriptionHtml) ==
    bind(trim(collapseWhitespace(replaceTags(descriptionHtml))), LAMBDA text :
      IF text = <<>> THEN [status |-> "missing", count |-> 0]
      ELSE bind(Len(filterBoolean(splitWords(text))), LAMBDA wordCount :
             [status |-> IF wordCount <= WeakWordCount THEN "weak" ELSE "ok",
              count  |-> wordCount]))

\* count is the quantity the message embeds.
evaluateDescription(descriptionHtml) ==
    bind(trim(collapseWhitespace(replaceTags(descriptionHtml))), LAMBDA text :
      IF text = <<>> THEN [status |-> "missing", count |-> 0]
      ELSE bind(Len(filterBoolean(splitWords(text))), LAMBDA wordCount :
             [status |-> IF wordCount < WeakWordCount THEN "weak" ELSE "ok",
              count  |-> wordCount]))

evaluateTags(tags) ==
    IF Len(tags) = 0 THEN [status |-> "missing", count |-> 0]
    ELSE [status |-> IF Len(tags) < WeakTagCount THEN "weak" ELSE "ok",
          count  |-> Len(tags)]

evaluateSeoTitle(seoTitle) ==
    IF seoTitle = <<>> THEN [status |-> "missing", count |-> 0]
    ELSE [status |-> IF Len(seoTitle) < HealthTitleMin \/ Len(seoTitle) > HealthTitleMax
                     THEN "weak" ELSE "ok",
          count  |-> Len(seoTitle)]

evaluateSeoDescription(seoDescription) ==
    IF seoDescription = <<>> THEN [status |-> "missing", count |-> 0]
    ELSE [status |-> IF \/ Len(seoDescription) < HealthDescriptionMin
                        \/ Len(seoDescription) > HealthDescriptionMax
                     THEN "weak" ELSE "ok",
          count  |-> Len(seoDescription)]

\* The four health fields of mapProductToAudit.
mapProductToAudit(node) ==
    [descriptionHealth    |-> evaluateDescription(orElse(node.descriptionHtml, <<>>)),
     tagsHealth           |-> evaluateTags(node.tags),
     seoTitleHealth       |-> evaluateSeoTitle(orElse(node.seoTitle, <<>>)),
     seoDescriptionHealth |-> evaluateSeoDescription(orElse(node.seoDescription, <<>>))]

\* The filter of the loader that selects the products needing attention.
needsAttention(product) ==
    \E status \in {product.descriptionHealth.status, product.tagsHealth.status,
                   product.seoTitleHealth.status, product.seoDescriptionHealth.status} :
      status # "ok"

\* A description of n words in the given form: words with one blank between
\* them, or paragraphs of one word each with line breaks between them.
wordsText(n, form) ==
    IF form = "plain"
    THEN join([i \in 1..n |-> <<"a", "b">>], <<" ">>)
    ELSE flatten([i \in 1..n |-> <<"<", "p", ">", "a", "b", "<", "/", "p", ">", "\n", " ">>])

\* The cases of the audit: the number of words of the description and its
\* form, the number of tags, and the lengths of the two SEO texts; 0 stands
\* for an empty value, absent for null.
AuditCases ==
    [words       : {0, 1, WeakWordCount - 1, WeakWordCount, WeakWordCount + 1},
     form        : {"plain", "markup"},
     tags        : 0..(WeakTagCount + 1),
     title       : {0, HealthTitleMin - 1, HealthTitleMin, HealthTitleMax,
                    HealthTitleMax + 1},
     description : {0, HealthDescriptionMin - 1, HealthDescriptionMin,
                    HealthDescriptionMax, HealthDescriptionMax + 1},
     absent      : BOOLEAN]

\* The product node of a case.  An absent value is null where the case has
\* an empty one.
auditNode(c) ==
    [descriptionHtml |-> IF c.absent /\ c.words = 0 THEN None
                         ELSE Some(wordsText(c.words, c.form)),
     tags            |-> manyTags(c.tags),
     seoTitle        |-> IF c.absent /\ c.title = 0 THEN None
                         ELSE Some(repeat("t", c.title)),
     seoDescription  |-> IF c.absent /\ c.description = 0 THEN None
                         ELSE Some(repeat("d", c.description))]

\* 'SharpS eta', a tag that begins with the sharp s.
TagSharp == <<SharpS, "e", "t", "a">>

\* The snapshots and results that are sanitized twice: the snapshots without
\* tags with every candidate, and one result whose tag begins with a sharp s.
ResanitizeInputs ==
    {[snapshot |-> s, result |-> c] :
        s \in {g \in GenSnapshots : g.tags = <<>>},
        c \in Candidates \cup {Obj([BaseCandidate EXCEPT !.tags = Arr(<<TagBlue, TagSharp>>)])}}

\* The snapshots whose fallback content is sanitized.
FallbackInputs ==
    GenSnapshots
      \cup {[id |-> "A", title |-> TitleBlueMugs, descriptionHtml |-> None,
             tags |-> <<TagSharp>>, seoTitle |-> None, seoDescription |-> None]}

\* An OptimizedContent as the result argument of sanitizeOptimizedResult.
asResult(optimized) ==
    Obj([descriptionHtml |-> Str(optimized.descriptionHtml),
         tags            |-> Arr(optimized.tags),
         seoTitle        |-> Str(optimized.seoTitle),
         seoDescription  |-> Str(optimized.seoDescription)])

\* The two pairs of limits that enforceLength is called with.
LengthPairs ==
    {[min |-> SeoTitleMin, max |-> SeoTitleMax],
     [min |-> SeoDescriptionMin, max |-> SeoDescriptionMax]}

\* The values given to enforceLength for the limits min and max: at each
\* limit, one past max with a letter or a blank before the cut, at min with a
\* blank in front, and empty or absent.
lengthValues(min, max) ==
    {Undefined, Null, Str(<<>>), Str(<<" ", "\n">>)}
      \cup {Str(repeat("a", n)) : n \in {min, max, max + 1}}
      \cup {Str(repeat("a", max - 2) \o <<" ", "b", "b">>),
            Str(repeat("a", max - 3) \o <<" ", " ", "b", "b">>),
            Str(<<" ">> \o repeat("a", min - 1))}

\* The fallbacks given to enforceLength: none, empty, blank, and a text of
\* min characters.
lengthFallbacks(min) == {Undefined, Str(<<>>), Str(<<" ", " ">>), Str(repeat("f", min))}

EnforceInputs ==
    UNION {{[min |-> p.min, max |-> p.max, value |-> v, fallback |-> f] :
              v \in lengthValues(p.min, p.max), f \in lengthFallbacks(p.min)} :
           p \in LengthPairs}

\* The tag sequences given to normalizeTags: the same word in two casings
\* with a padded one, words in upper and mixed case, repeats out of order,
\* blank entries only, and more entries than are kept.
TagInputs ==
    {<<TagBlue, TagBlueLower, TagRedPadded>>,
     <<<<"B", "L", "U", "E">>>>,
     <<<<"i", "P", "h", "o", "n", "e">>, <<"I", "P", "H", "O", "N", "E">>, <<"r", "e", "d">>>>,
     <<<<"r", "e", "d">>, TagBlueLower, <<" ">>, TagRedPadded, TagBlueLower, <<>>,
       <<"m", "u", "g">>>>,
     <<<<" ">>, <<>>>>,
     manyTags(MaxTags), manyTags(MaxTags + 1),
     manyTags(MaxTags) \o manyTags(MaxTags + 2)}

InitPure ==
    /\ apiKey = FALSE
    /\ store = InitStore
    /\ history = InitHistory
    /\ last = LastIdle
    /\ used = UsedIdle
    /\ gen \in {[phase |-> "node", case |-> c, node |-> auditNode(c)] : c \in AuditCases}
              \cup {[phase |-> "result", snapshot |-> i.snapshot, result |-> i.result] :
                       i \in ResanitizeInputs}
              \cup {[phase |-> "snapshot", snapshot |-> s] : s \in FallbackInputs}
              \cup {[phase |-> "value", min |-> i.min, max |-> i.max, value |-> i.value,
                     fallback |-> i.fallback] : i \in EnforceInputs}
              \cup {[phase |-> "tags", given |-> g, title |-> TitleBlueMugs] :
                       g \in TagInputs}

\* mapProductToAudit on the node, and the loader's filter on its result.
Audit ==
    /\ gen.phase = "node"
    /\ \E product \in {mapProductToAudit(gen.node)} :
         gen' = [phase |-> "audited", case |-> gen.case, node |-> gen.node,
                 product |-> product, needsAttention |-> needsAttention(product)]
    /\ UNCHANGED <<apiKey, store, history, last, used>>

\* sanitizeOptimizedResult on the result, and again on what it returned.
SanitizeTwice ==
    /\ gen.phase = "result"
    /\ \E first \in {sanitizeOptimizedResult(gen.snapshot, gen.result)} :
         gen' = [phase |-> "resanitized", tier |-> "model", snapshot |-> gen.snapshot,
                 result |-> gen.result, first |-> first,
                 second |-> IF first.threw THEN first
                            ELSE sanitizeOptimizedResult(gen.snapshot, asResult(first.v))]
    /\ UNCHANGED <<apiKey, store, history, last, used>>

\* sanitizeOptimizedResult on the content of generateFallbackContent.
SanitizeFallback ==
    /\ gen.phase = "snapshot"
    /\ \E first \in {Ok(generateFallbackContent(gen.snapshot))} :
         gen' = [phase |-> "resanitized", tier |-> "fallback", snapshot |-> gen.snapshot,
                 result |-> asResult(first.v), first |-> first,
                 second |-> sanitizeOptimizedResult(gen.snapshot, asResult(first.v))]
    /\ UNCHANGED <<apiKey, store, history, last, used>>

\* enforceLength on the value.
EnforceLength ==
    /\ gen.phase = "value"
    /\ \E run \in {enforceLengthRun(gen.value, gen.min, gen.max, gen.fallback)} :
         gen' = [phase |-> "enforced", min |-> gen.min, max |-> gen.max,
                 value |-> gen.value, fallback |-> gen.fallback,
                 text |-> run.text, iterations |-> run.iterations]
    /\ UNCHANGED <<apiKey, store, history, last, used>>

\* normalizeTags on the sequence, for a snapshot with the title.
NormalizeTags ==
    /\ gen.phase = "tags"
    /\ gen' = [phase |-> "normalized", given |-> gen.given, title |-> gen.title,
               tags |-> normalizeTags(Arr(gen.given), [title |-> gen.title])]
    /\ UNCHANGED <<apiKey, store, history, last, used>>

NextPure == Audit \/ SanitizeTwice \/ SanitizeFallback \/ EnforceLength \/ NormalizeTags

SpecPure == InitPure /\ [][NextPure]_vars

----------------------------------------------------------------------------
(* part_000, enforceLength: the padding loop, one iteration at a time.     *)

\* `${text}${text.endsWith(".") ? "" : "."}` followed by the fragment alone.
padOnceBare(text) == text \o PadFragment

\* `${text}${text.endsWith(".") ? "" : "."} Discover more in our store.`
padOnce(text) == text \o (IF endsWith(text, ".") THEN <<>> ELSE <<".">>) \o PadFragment

\* The texts that reach the loop under the limit max: trimmed, not empty and
\* of at most max characters; letters only, ending in a period, or cut with
\* the ellipsis.
loopTexts(max) ==
    {repeat("a", n) : n \in 1..max}
      \cup {Append(repeat("a", n - 1), ".") : n \in 1..max}
      \cup {Append(repeat("a", max - 1), Ellipsis)}

InitPad ==
    /\ apiKey = FALSE
    /\ store = InitStore
    /\ history = InitHistory
    /\ last = LastIdle
    /\ used = UsedIdle
    /\ gen \in UNION {{[phase |-> "padding", min |-> p.min, max |-> p.max, start |-> s,
                        text |-> s, iterations |-> 0] : s \in loopTexts(p.max)} :
                      p \in LengthPairs}

\* One iteration of the while loop: the text is padded, and cut when it has
\* grown past max, which leaves the loop.
PadStep ==
    /\ gen.phase = "padding"
    /\ Len(gen.text) < gen.min
    /\ \E padded \in {padOnce(gen.text)} :
         gen' = [gen EXCEPT !.text = IF Len(padded) > gen.max
                                     THEN truncate(padded, gen.max) ELSE padded,
                            !.phase = IF Len(padded) > gen.max THEN "returned" ELSE "padding",
                            !.iterations = @ + 1]
    /\ UNCHANGED <<apiKey, store, history, last, used>>

\* The loop condition fails and the text is returned.
PadExit ==
    /\ gen.phase = "padding"
    /\ Len(gen.text) >= gen.min
    /\ gen' = [gen EXCEPT !.phase = "returned"]
    /\ UNCHANGED <<apiKey, store, history, last, used>>

NextPad == PadStep \/ PadExit

\* The loop runs on: nothing suspends it.
SpecPad == InitPad /\ [][NextPad]_vars /\ WF_vars(NextPad)

----------------------------------------------------------------------------
(* Properties of the pure functions.                                       *)

\* The status that a quantity has against the limits least and most: missing
\* when it is 0, weak when it is outside them.
statusFor(quantity, least, most) ==
    IF quantity = 0 THEN "missing"
    ELSE IF quantity < least \/ quantity > most THEN "weak" ELSE "ok"

\* C13: a description of 60 words or more is ok and one of 1 to 59 words is
\* weak; an SEO title of 35 to 60 characters is ok, one of 34 or 61 is weak;
\* an SEO description of 110 to 160 characters is ok, outside weak; 3 tags or
\* more are ok, 1 or 2 weak; an empty or null value is missing for each of
\* the four fields; and the product needs attention exactly when one of its
\* four statuses is not ok.
C13_HealthBoundaries ==
    gen.phase = "audited" =>
      /\ gen.product.descriptionHealth.status
           = statusFor(gen.case.words, 60, gen.case.words)
      /\ gen.product.descriptionHealth.count = gen.case.words
      /\ gen.product.tagsHealth.status = statusFor(gen.case.tags, 3, gen.case.tags)
      /\ gen.product.seoTitleHealth.status = statusFor(gen.case.title, 35, 60)
      /\ gen.product.seoDescriptionHealth.status
           = statusFor(gen.case.description, 110, 160)
      /\ gen.needsAttention
           <=> ~(/\ gen.case.words >= 60
                 /\ gen.case.tags >= 3
                 /\ gen.case.title \in 35..60
                 /\ gen.case.description \in 110..160)

\* A product with a description of exactly 60 words in paragraphs, 3 tags,
\* an SEO title of 60 characters and an SEO description of 110 needs no
\* attention.
C13_AllAtTheLimits ==
    /\ gen.phase = "audited"
    /\ gen.case.words = 60
    /\ gen.case.form = "markup"
    /\ gen.case.tags = 3
    /\ gen.case.title = 60
    /\ gen.case.description = 110
    /\ ~gen.needsAttention
    /\ gen.product.descriptionHealth = [status |-> "ok", count |-> 60]

\* The results of both passes where the first pass returned a content.
resanitized == gen.phase = "resanitized" /\ ~gen.first.threw

\* A tag of the first pass's content begins with the sharp s or with what
\* its upper case left.
sharpTag ==
    \E i \in DOMAIN gen.first.v.tags :
      /\ Len(gen.first.v.tags[i]) >= 2
      /\ SubSeq(gen.first.v.tags[i], 1, 2) = <<"S", "S">>

\* C14: sanitizing a sanitized content, or a fallback content, against the
\* same snapshot returns the identical content.
C14_SanitizeIdempotent ==
    resanitized => gen.second = gen.first

\* The content changes on the second pass only in its tags, and only where
\* a tag began with the sharp s.
C14_IdempotentButSharp ==
    resanitized =>
      /\ ~gen.second.threw
      /\ gen.second.v.descriptionHtml = gen.first.v.descriptionHtml
      /\ gen.second.v.seoTitle = gen.first.v.seoTitle
      /\ gen.second.v.seoDescription = gen.first.v.seoDescription
      /\ ~sharpTag => gen.second.v.tags = gen.first.v.tags

\* A content of the model tier whose SEO title was cut at the limit is
\* returned unchanged by the second pass.
C14_CutTitleKept ==
    /\ resanitized
    /\ gen.tier = "model"
    /\ prop(gen.result, "seoTitle").t = "string"
    /\ Len(prop(gen.result, "seoTitle").v) > SeoTitleMax
    /\ gen.second = gen.first

\* A fallback content whose tag began with the sharp s changes on the
\* second pass.
C14_FallbackDrifts ==
    /\ resanitized
    /\ gen.tier = "fallback"
    /\ gen.second # gen.first

\* The characters of the value given to enforceLength; none for an absent one.
given == IF gen.value.t = "string" THEN gen.value.v ELSE <<>>

\* The text that stands in for an empty value: the fallback when it has
\* characters other than blanks, else 'Shop our curated collection today.'.
standIn ==
    IF gen.fallback.t = "string" /\ trim(gen.fallback.v) # <<>>
    THEN trim(gen.fallback.v)
    ELSE <<"S", "h", "o", "p", " ", "o", "u", "r", " ", "c", "u", "r", "a", "t", "e", "d",
           " ", "c", "o", "l", "l", "e", "c", "t", "i", "o", "n", " ", "t", "o", "d", "a",
           "y", ".">>

\* The empty value is replaced by its stand-in, which is then brought within
\* the limits as any other value is.
emptyReplaced ==
    Len(given) = 0 =>
      gen.text = enforceLengthRun(Str(standIn), gen.min, gen.max, Undefined).text

\* C15: for both pairs of limits, a value of exactly min or exactly max
\* characters is returned unchanged; a value of max + 1 characters is cut to
\* exactly max characters, the ellipsis included, whatever character stands
\* before the cut; an empty value is replaced by the fallback, and by the
\* default text when the fallback is empty too.
C15_LengthBoundaries ==
    gen.phase = "enforced" =>
      /\ Len(given) \in {gen.min, gen.max} => gen.text = given
      /\ Len(given) = gen.max + 1 =>
           /\ Len(gen.text) = gen.max
           /\ gen.text[gen.max] = "ELLIPSIS"
      /\ emptyReplaced

\* The same holds of the values that neither begin nor end with a blank and
\* have no blank before the cut; with a blank before the cut the text is
\* shorter than max, and a value with a blank in front is trimmed first.
C15_BoundariesButBlanks ==
    gen.phase = "enforced" =>
      /\ Len(given) \in {gen.min, gen.max} /\ trim(given) = given => gen.text = given
      /\ Len(given) = gen.max + 1 =>
           /\ gen.text = Append(trimEnd(SubSeq(given, 1, gen.max - 1)), "ELLIPSIS")
           /\ given[gen.max - 1] \notin Whitespace => Len(gen.text) = gen.max
           /\ given[gen.max - 1] \in Whitespace => Len(gen.text) < gen.max
      /\ emptyReplaced

\* A value of max + 1 characters with a blank before the cut came back one
\* character short of max.
C15_BlankBeforeCut ==
    /\ gen.phase = "enforced"
    /\ Len(given) = gen.max + 1
    /\ given[gen.max - 1] = " "
    /\ Len(gen.text) = gen.max - 1

\* The entries of the given sequence, trimmed, without the empty ones.
entries == SelectSeq([i \in 1..Len(gen.given) |-> trim(gen.given[i])], LAMBDA e : e # <<>>)

\* The entries that no earlier entry equals when case is ignored, as given.
firstSeen ==
    SelectSeq([i \in 1..Len(entries) |->
                 IF \E j \in 1..(i - 1) : toLowerCase(entries[j]) = toLowerCase(entries[i])
                 THEN <<>> ELSE entries[i]],
              LAMBDA e : e # <<>>)

\* The first-seen entries with the first letter in upper case and the others
\* as given, up to 8 of them.
firstSeenCapitalized ==
    [k \in 1..(IF Len(firstSeen) < 8 THEN Len(firstSeen) ELSE 8) |->
       <<charToUpper(firstSeen[k][1])>> \o Tail(firstSeen[k])]

\* C16: the tags are the trimmed non-empty entries, without the entries that
\* repeat an earlier one when case is ignored, each in the casing it was
\* first seen in with its first letter capitalized, in the order of first
\* occurrence, and at most 8 of them.
C16_TagNormalization ==
    gen.phase = "normalized" /\ entries # <<>> => gen.tags = firstSeenCapitalized

\* The tags are the first-seen entries in lower case with a capital first
\* letter: the casing of the entry is not kept.
C16_TagsLowerCased ==
    gen.phase = "normalized" /\ entries # <<>> =>
      /\ Len(gen.tags) = Len(firstSeenCapitalized)
      /\ \A k \in DOMAIN gen.tags :
           gen.tags[k] = <<firstSeenCapitalized[k][1]>>
                           \o toLowerCase(Tail(firstSeenCapitalized[k]))

\* 'Blue', 'blue', ' Red ' gave 'Blue', 'Red'.
C16_BlueAndRed ==
    /\ gen.phase = "normalized"
    /\ gen.given = << <<"B", "l", "u", "e">>, <<"b", "l", "u", "e">>, <<" ", "R", "e", "d", " ">> >>
    /\ gen.tags = << <<"B", "l", "u", "e">>, <<"R", "e", "d">> >>

\* 'BLUE' gave 'Blue'.
C16_UpperCaseLost ==
    /\ gen.phase = "normalized"
    /\ gen.given = << <<"B", "L", "U", "E">> >>
    /\ gen.tags = << <<"B", "l", "u", "e">> >>

\* The number of closing fragments that reach min from nothing.
fragmentsUpTo(min) == (min + Len(PadFragment) - 1) \div Len(PadFragment)

\* An iteration of the loop has run in this step.
iterated == gen'.iterations = gen.iterations + 1

\* The iteration added the closing fragment, after a period where the text
\* did not end in one.
lengthened ==
    /\ Len(gen'.text) = Len(gen.text) + Len(PadFragment)
                          + (IF gen.text[Len(gen.text)] = "." THEN 0 ELSE 1)
    /\ SubSeq(gen'.text, 1, Len(gen.text)) = gen.text
    /\ SubSeq(gen'.text, Len(gen'.text) - Len(PadFragment) + 1, Len(gen'.text)) = PadFragment

\* The iteration grew the text past max, cut it to max, and left the loop.
overshot ==
    /\ Len(gen.text) + Len(PadFragment) + 1 > gen.max
    /\ Len(gen'.text) = gen.max
    /\ gen'.text[gen.max] = "ELLIPSIS"
    /\ gen'.phase = "returned"

\* C17: for both pairs of limits and every text that enters it, the padding
\* loop returns, after at most 4 iterations and no more than the closing
\* fragments that reach min; an iteration either lengthens the text by the
\* closing fragment or, when that grows it past max, cuts it and leaves the
\* loop; and the loop returns what enforceLength returns.
C17_PadLoopTerminates ==
    /\ <>(gen.phase = "returned")
    /\ [](/\ gen.iterations <= 4
          /\ gen.iterations <= fragmentsUpTo(gen.min)
          /\ gen.phase = "returned" =>
               /\ Len(gen.text) \in gen.min..gen.max
               /\ [text |-> gen.text, iterations |-> gen.iterations]
                    = enforceLengthRun(Str(gen.start), gen.min, gen.max, Undefined))
    /\ [][iterated => /\ gen.phase = "padding"
                      /\ Len(gen.text) < gen.min
                      /\ \/ lengthened /\ gen'.phase = "padding"
                         \/ overshot]_vars

\* A text of one character was returned after 4 iterations under the limits
\* 110 and 160.
C17_FourIterations ==
    /\ gen.phase = "returned"
    /\ Len(gen.start) = 1
    /\ gen.min = 110
    /\ gen.iterations = 4

\* A text of 34 characters left the loop cut to 60 after one iteration.
C17_CutAndLeft ==
    /\ gen.phase = "returned"
    /\ Len(gen.start) = 34
    /\ gen.iterations = 1
    /\ Len(gen.text) = 60
    /\ gen.text[60] = "ELLIPSIS"

============================================================================
